---- MODULE Spec2Model ----
(***************************************************************************)
(* The migration engine of shop-hop-sync (the "migrate" edge function):    *)
(* one call copies the selected items of one entity kind from the source   *)
(* store to the target store.  Every remote request the handler awaits is  *)
(* one action; its outcome (success, transport failure, userErrors) is     *)
(* chosen by the environment.  The target store persists between calls,    *)
(* the handler's locals are reset by every call.                           *)
(***************************************************************************)
EXTENDS Naturals, Sequences, FiniteSets

\* ------------------------------------------------------------------ bounds
NumItems == 2   \* source items per entity kind (ids 1..NumItems)
MaxFail  == 2   \* remote requests that may fail in one behaviour
PageSize == 1   \* entries per page of a paginated query (the code asks for 50)

\* ---------------------------------------------------------------- requests
RestKinds == {"products", "collections", "pages", "blogs"}
DataTypes == RestKinds \cup {"metaobjects", "metafields"}
ConflictModes == {"overwrite", "skip", "ask"}

\* The id sets a caller sends: source ids, or id 0, which no source item has.
IdSets == (SUBSET (1..NumItems)) \cup {{0, 1}}

\* metafieldsOwnerType is sent with metafields requests only; "orders" is a
\* type OWNER_TYPE_MAP does not know.
MigrateRequest ==
  {r \in [dataType : DataTypes, itemIds : IdSets, conflictMode : ConflictModes,
          dryRun : BOOLEAN, metafieldsOwnerType : {"", "products", "orders"}] :
     IF r.dataType = "metafields" THEN r.metafieldsOwnerType # ""
     ELSE r.metafieldsOwnerType = ""}

VARIABLES
  req,          \* the request body of the calls of this behaviour
  calls,        \* calls started so far: a run (1) and its re-run (2)
  fails,        \* remote requests that failed so far
  tgt,          \* the target store: records per resource, in listing order
  pc,           \* the handler's position
  results,      \* Result[] of the running call
  log,          \* the remote requests of the running call, in order; a
                \* step is one await: what it appends was sent together
                \* and is answered when the handler resumes
  response,     \* "none" | "results" | "error" (the 500 payload)
  summary,      \* the summary of the response
  prevResults,  \* results returned by the previous call
  prevReq,      \* the request body of the previous call
  selected,     \* selected source items (or definitions)
  idx,          \* index of the item being processed
  targetList,   \* the target collection fetched for matching
  articles,     \* the source articles of the blog being processed
  jdx,          \* index in the inner loop (articles, entries, metafields)
  targetBlogId, \* id of the target blog that receives the articles
  entries,      \* source entries of the definition being processed
  tgtEntries,   \* target entries of that type, fetched for matching
  cursor,       \* cursor of the source entry pagination (0: null)
  tCursor,      \* cursor of the target entry pagination (0: null)
  metafields,   \* source metafields of the item being processed
  handle,       \* handle of that source item
  targetItemId, \* id of the resolved target owner (0: null)
  tgtMf,        \* metafields of the target owner
  tally,        \* mfCreated, mfUpdated, mfSkipped, mfErrors
  selectedItems,     \* store: the ids selected per kind
  migrateMetafields, \* store: whether the metafield passes run
  running,           \* MigrationProgress state
  finished,
  progress,
  totalSteps,
  completedSteps,
  summaryState,      \* the component's `summary` state
  globalSummary,     \* startMigration's local sum of the summaries
  stepsDone,         \* startMigration's local step counter
  dt,                \* index of the kind in dataTypesToMigrate
  at,                \* startMigration's position
  engineCalls,       \* the calls of migrateDataType of the running
                     \* startMigration, in order, each "pending" until
                     \* it is "settled"
  proxyRequest,      \* the JSON body of the request to shopify-proxy
  proxyResponse,     \* its response (status 0: none yet)
  forwarded          \* the requests the proxy sent to the store

callVars == <<req, calls, prevReq>>
outVars == <<results, response, summary, prevResults>>
loopVars == <<selected, idx, targetList>>
blogVars == <<articles, targetBlogId>>
moVars == <<entries, tgtEntries, cursor, tCursor>>
mfVars == <<metafields, handle, targetItemId, tgtMf, tally>>

orchVars == <<selectedItems, migrateMetafields, running, finished, progress,
              totalSteps, completedSteps, summaryState, globalSummary,
              stepsDone, dt, at, engineCalls>>
proxyVars == <<proxyRequest, proxyResponse, forwarded>>
clientVars == <<orchVars, proxyVars>>

engineVars == <<req, calls, prevReq, fails, tgt, pc, results, log, response,
                summary, prevResults, selected, idx, targetList, articles, jdx,
                targetBlogId, entries, tgtEntries, cursor, tCursor, metafields,
                handle, targetItemId, tgtMf, tally>>

vars == <<engineVars, clientVars>>

\* ------------------------------------------------------------------ records
\* The store-local fields every REST record carries.
IdentityFields ==
  {"id", "admin_graphql_api_id", "created_at", "updated_at", "published_at"}

\* The top-level field names of the records a source listing returns.
SrcFields(res) ==
  IdentityFields \cup {"title", "handle"} \cup
  CASE res = "products" -> {"body_html", "variants", "images", "image"}
    [] res = "custom_collections" -> {"body_html", "image"}
    [] res = "smart_collections" -> {"body_html", "image", "rules"}
    [] res = "pages" -> {"shop_id", "body_html"}
    [] res = "blogs" -> {"commentable"}
    [] res = "articles" -> {"blog_id", "user_id", "body_html", "image"}
    [] OTHER -> {}

\* The field names of a record the handler holds: a collection was tagged
\* with _type when the two listings were merged.
FieldsOf(res, item) ==
  SrcFields(res) \cup (IF item.sub # "-" THEN {"_type"} ELSE {})

cleanProduct(p) ==
  p \ {"id", "admin_graphql_api_id", "created_at", "updated_at", "published_at"}

cleanCollection(c) ==
  c \ {"id", "admin_graphql_api_id", "created_at", "updated_at", "published_at",
       "type"}

cleanPage(p) ==
  p \ {"id", "admin_graphql_api_id", "created_at", "updated_at", "published_at",
       "shop_id"}

cleanArticle(a) ==
  a \ {"id", "admin_graphql_api_id", "created_at", "updated_at", "blog_id",
       "user_id"}

\* The cleaned body of the products, collections and pages loops.
Cleaned(endpoint, item) ==
  CASE endpoint = "products" -> cleanProduct(FieldsOf(endpoint, item))
    [] endpoint = "pages" -> cleanPage(FieldsOf(endpoint, item))
    [] OTHER -> cleanCollection(FieldsOf(endpoint, item))

\* The value null of a metaobject field.
Null == "<null>"

\* The fields of source entry j: one with a value, one whose value is ""
\* on odd entries, one whose value is null on even entries.
EntryFields(j) ==
  <<[key |-> "k1", value |-> "a", type |-> "single_line_text_field"],
    [key |-> "k2", value |-> IF j % 2 = 1 THEN "" ELSE "b",
     type |-> "single_line_text_field"],
    [key |-> "k3", value |-> IF j % 2 = 0 THEN Null ELSE "c",
     type |-> "single_line_text_field"]>>

RECURSIVE KeyValues(_)
KeyValues(fs) ==
  IF fs = <<>> THEN <<>>
  ELSE <<[key |-> Head(fs).key, value |-> Head(fs).value]>> \o KeyValues(Tail(fs))

\* EntryInput without the filter on the value.
EntryInputUnfiltered(fs) == KeyValues(fs)

\* entry.fields.filter(value !== null && value !== "").map({key, value})
EntryInput(fs) ==
  KeyValues(SelectSeq(fs, LAMBDA f : f.value # Null /\ f.value # ""))

\* ------------------------------------------------------------ source store
NoMatch == 0

\* Collections are custom or smart; every other kind has no sub-type.
SrcSubType(k, i) ==
  IF k = "collections" THEN (IF i % 2 = 1 THEN "smart" ELSE "custom") ELSE "-"

\* The source listing of kind k: item i has handle i.
SrcList(k) ==
  [i \in 1..NumItems |-> [id |-> i, handle |-> i, sub |-> SrcSubType(k, i)]]

\* Source collections of one sub-type, in listing order.
SrcOfSub(sub) == SelectSeq(SrcList("collections"), LAMBDA c : c.sub = sub)

\* Blog b holds b articles.
SrcArticles(b) == [j \in 1..b |-> [id |-> 10 * b + j, handle |-> j, sub |-> "-"]]

\* Source metaobject definitions: definition d has type d.
SrcDefinitions == [d \in 1..NumItems |-> [id |-> d, type |-> d]]

\* Definition d holds d entries, with handles 1..d.
SrcEntries(type) ==
  [j \in 1..type |-> [id |-> 10 * type + j, handle |-> j, type |-> type,
                       fields |-> EntryFields(j)]]

\* Source items with an odd id own two metafields (keys 1 and 2), the
\* others own none.  A key stands for a (namespace, key) pair.
SrcMetafields(i) ==
  IF i % 2 = 1 THEN [j \in 1..2 |-> [id |-> 10 * i + j, key |-> j]] ELSE <<>>

\* The resources of the target store.
Resources ==
  {"products", "pages", "blogs", "custom_collections", "smart_collections",
   "articles", "definitions", "metaobjects", "metafields"}

\* Before the first call the target store is empty, or holds for every
\* resource one record whose natural key is that of source item 1.
InitTargets == {0, 1}

InitTargetList(res, t) ==
  IF res \in {"articles", "smart_collections"} THEN <<>>
  ELSE IF res = "definitions"
       THEN [j \in 1..t |-> [id |-> j, type |-> j, from |-> 0]]
  ELSE IF res = "metaobjects"
       THEN [j \in 1..t |-> [id |-> j, handle |-> 1, type |-> j, from |-> 0]]
  ELSE IF res = "metafields"
       THEN [j \in 1..t |-> [id |-> j, owner |-> j, key |-> 1, from |-> 0]]
  ELSE [j \in 1..t |-> [id |-> j, handle |-> j, sub |-> "-", from |-> 0]]

\* ---------------------------------------------------------------- transport
Outcomes == {"ok", "fail"}

\* A request as it is logged.  body is the set of the top-level field names
\* of the record (or GraphQL input) sent, fields the `fields` array of a
\* metaobject input; a request without a payload has neither.
Request(store, verb, res, item, ref, out) ==
  [store |-> store, verb |-> verb, res |-> res, item |-> item, ref |-> ref,
   body |-> {}, fields |-> <<>>, out |-> out]

shopifyGet(store, res, item, out) == Request(store, "GET", res, item, 0, out)

shopifyPost(store, res, item, body, out) ==
  [Request(store, "POST", res, item, 0, out) EXCEPT !.body = body]

shopifyPut(store, res, item, ref, body, out) ==
  [Request(store, "PUT", res, item, ref, out) EXCEPT !.body = body]

\* The variables of a query that has none.
NoVariables == [body |-> {}, fields |-> <<>>]

\* A GraphQL request is a query or a mutation; a mutation may also answer
\* with a non-empty userErrors list.
shopifyGraphQL(store, verb, res, item, ref, variables, out) ==
  [Request(store, verb, res, item, ref, out)
     EXCEPT !.body = variables.body, !.fields = variables.fields]

MutationOutcomes == {"ok", "fail", "userErrors"}

IsWrite(r) == r.verb \in {"POST", "PUT", "MUTATION"}

\* A failing outcome is available while the failure budget lasts.
MayBe(out) == out = "ok" \/ fails < MaxFail

Count(out) == IF out = "ok" THEN fails ELSE fails + 1

\* A request the store can only refuse (404) fails outside the budget.
Forced(outs) == outs = {"fail"}

\* ------------------------------------------------------------------ helpers
\* find that returns the last record with the handle instead of the first.
FindLastByHandle(list, h) ==
  IF \E n \in 1..Len(list) : list[n].handle = h
  THEN CHOOSE n \in 1..Len(list) :
         /\ list[n].handle = h
         /\ \A m \in (n + 1)..Len(list) : list[m].handle # h
  ELSE NoMatch

\* Array.prototype.find on a handle: index of the first record, or NoMatch.
FindByHandle(list, h) ==
  IF \E n \in 1..Len(list) : list[n].handle = h
  THEN CHOOSE n \in 1..Len(list) :
         /\ list[n].handle = h
         /\ \A m \in 1..(n - 1) : list[m].handle # h
  ELSE NoMatch

\* tgtDefs.find on the type.
FindByType(list, type) ==
  IF \E n \in 1..Len(list) : list[n].type = type
  THEN CHOOSE n \in 1..Len(list) :
         /\ list[n].type = type
         /\ \A m \in 1..(n - 1) : list[m].type # type
  ELSE NoMatch

\* A page of `list` after cursor `after`: the edges and pageInfo.hasNextPage.
\* The cursor of an edge is its position in the listing.
Page(list, after) ==
  [edges |-> SubSeq(list, after + 1,
                    IF after + PageSize < Len(list) THEN after + PageSize
                    ELSE Len(list)),
   hasNextPage |-> after + PageSize < Len(list)]

\* LastCursor that never advances: every query asks for the same page.
LastCursorKept(after, edges) == after

\* The cursor kept after a page: that of its last edge, null for no edge.
LastCursor(after, edges) == IF Len(edges) > 0 THEN after + Len(edges) ELSE 0

OfType(list, type) == SelectSeq(list, LAMBDA e : e.type = type)

FilterKeepsAll(list, ids) == list

Filter(list, ids) == SelectSeq(list, LAMBDA x : x.id \in ids)

\* A Result with its message.  The message is kept where it tells the
\* causes of an error apart (migrateMetafields); elsewhere it is "".
ResultWith(id, title, status, message) ==
  [id |-> id, title |-> title, status |-> status, message |-> message]

Result(id, title, status) == ResultWith(id, title, status, "")

\* message: "Ziel-Ressource nicht gefunden"
NotFound == "Ziel-Ressource nicht gefunden"

\* message: e.message of the exception a failed request throws
Thrown == "e.message"

CountStatus(rs, s) == Len(SelectSeq(rs, LAMBDA r : r.status = s))

\* Summary with the total taken from the request instead of the results.
SummaryTotalOfRequest(rs) ==
  [total |-> Cardinality(req.itemIds), created |-> CountStatus(rs, "created"),
   updated |-> CountStatus(rs, "updated"),
   skipped |-> CountStatus(rs, "skipped"),
   errors |-> CountStatus(rs, "error")]

Summary(rs) ==
  [total |-> Len(rs), created |-> CountStatus(rs, "created"),
   updated |-> CountStatus(rs, "updated"),
   skipped |-> CountStatus(rs, "skipped"),
   errors |-> CountStatus(rs, "error")]

NoTally == [created |-> 0, updated |-> 0, skipped |-> 0, errors |-> 0]

NoSummary == [total |-> 0, created |-> 0, updated |-> 0, skipped |-> 0,
              errors |-> 0]

\* WriteStatus without the userErrors check: only a thrown error counts.
WriteStatusOnThrowOnly(out, status) == IF out = "fail" THEN "error" ELSE status

\* WriteStatus with the failure swallowed.
WriteStatusIgnoresFailure(out, status) == status

\* The status pushed after an awaited write: the catch of the iteration (or
\* the userErrors branch) turns a failed one into an error Result.
WriteStatus(out, status) == IF out = "ok" THEN status ELSE "error"

\* Resolve with skip mode skipping every item, matched or not.
ResolveSkipWithoutMatch(existing, conflictMode, dryRun) ==
  IF conflictMode = "skip" THEN "skip"
  ELSE IF dryRun THEN "simulate"
  ELSE IF existing # NoMatch /\ conflictMode = "overwrite" THEN "update"
  ELSE IF existing = NoMatch THEN "create"
  ELSE "none"

\* Resolve with the skip branch missing: skip behaves like overwrite.
ResolveSkipAsOverwrite(existing, conflictMode, dryRun) ==
  IF dryRun THEN "simulate"
  ELSE IF existing # NoMatch /\ conflictMode \in {"overwrite", "skip"} THEN "update"
  ELSE IF existing = NoMatch THEN "create"
  ELSE "none"

\* Resolve without the dry-run branch.
ResolveDryRunWrites(existing, conflictMode, dryRun) ==
  IF existing # NoMatch /\ conflictMode = "skip" THEN "skip"
  ELSE IF existing # NoMatch /\ conflictMode = "overwrite" THEN "update"
  ELSE IF existing = NoMatch THEN "create"
  ELSE "none"

\* The decision of the products, collections and pages loops.
Resolve(existing, conflictMode, dryRun) ==
  IF existing # NoMatch /\ conflictMode = "skip" THEN "skip"
  ELSE IF dryRun THEN "simulate"
  ELSE IF existing # NoMatch /\ conflictMode = "overwrite" THEN "update"
  ELSE IF existing = NoMatch THEN "create"
  ELSE "none"

\* ResolveBlog without the skip branch: a matched blog always falls through.
ResolveBlogWithoutSkip(existingBlog, conflictMode, dryRun) ==
  IF dryRun THEN "simulate"
  ELSE IF existingBlog # NoMatch THEN "update"
  ELSE "create"

\* The decision of the blogs loop: the dry run is looked at first.
ResolveBlog(existingBlog, conflictMode, dryRun) ==
  IF dryRun THEN "simulate"
  ELSE IF existingBlog # NoMatch /\ conflictMode = "skip" THEN "skip"
  ELSE IF existingBlog # NoMatch THEN "update"
  ELSE "create"

\* Ids are unique over the custom and the smart collections of a store.
NewId(store, res) ==
  IF res \in {"custom_collections", "smart_collections"}
  THEN Len(store["custom_collections"]) + Len(store["smart_collections"]) + 1
  ELSE Len(store[res]) + 1

\* The target store after a successful POST of source item `item` to `res`.
Created(store, res, item) ==
  [store EXCEPT ![res] =
     Append(@, [id |-> NewId(store, res), handle |-> item.handle, sub |-> "-",
                from |-> item.id])]

\* A PUT to /<res>/<id>.json is answered 404 when <res> holds no such id.
PutOutcomes(res, id) ==
  IF \E n \in 1..Len(tgt[res]) : tgt[res][n].id = id THEN Outcomes ELSE {"fail"}

\* ----------------------------------------------------------------- client
\* DataType, in the key order of the store's selectedItems.
Kinds == <<"products", "collections", "metaobjects", "blogs", "pages">>

KindSet == {Kinds[k] : k \in 1..Len(Kinds)}

\* The component's state after construction (useState).
OrchState ==
  /\ running = FALSE
  /\ finished = FALSE
  /\ progress = 0
  /\ totalSteps = 0
  /\ completedSteps = 0
  /\ summaryState = NoSummary
  /\ globalSummary = NoSummary
  /\ stepsDone = 0
  /\ dt = 1
  /\ at = "idle"
  /\ engineCalls = <<>>

\* The store and the component before anything is selected or started.
OrchIdle ==
  /\ selectedItems = [k \in KindSet |-> {}]
  /\ migrateMetafields = FALSE
  /\ OrchState

\* A field of the JSON body that is absent (or empty: both are falsy).
Absent == ""

\* No response yet.
NoResponse == [status |-> 0, body |-> "none"]

\* No request has reached the proxy.
ProxyIdle ==
  /\ proxyRequest = [http |-> "none", shopUrl |-> Absent,
                     accessToken |-> Absent, endpoint |-> Absent,
                     method |-> Absent, body |-> Absent, graphql |-> Absent]
  /\ proxyResponse = NoResponse
  /\ forwarded = <<>>

\* ------------------------------------------------------------------- Init
EngineStart ==
  /\ req \in MigrateRequest
  /\ calls = 0
  /\ fails = 0
  /\ pc = "idle"
  /\ results = <<>>
  /\ log = <<>>
  /\ response = "none"
  /\ summary = NoSummary
  /\ prevResults = <<>>
  /\ prevReq = req
  /\ selected = <<>>
  /\ idx = 1
  /\ targetList = <<>>
  /\ articles = <<>>
  /\ jdx = 1
  /\ targetBlogId = 0
  /\ entries = <<>>
  /\ tgtEntries = <<>>
  /\ cursor = 0
  /\ tCursor = 0
  /\ metafields = <<>>
  /\ handle = 0
  /\ targetItemId = 0
  /\ tgtMf = <<>>
  /\ tally = NoTally

EngineInit ==
  /\ EngineStart
  /\ \E t \in InitTargets : tgt = [r \in Resources |-> InitTargetList(r, t)]

\* The engine before its first call; nothing is selected in the client.
Init ==
  /\ EngineInit
  /\ OrchIdle
  /\ ProxyIdle

\* ---------------------------------------------------------------- handler
\* serve: the request body is read and the handler's locals start empty.
Enter ==
  /\ calls' = calls + 1
  /\ prevResults' = results
  /\ prevReq' = req
  /\ results' = <<>>
  /\ log' = <<>>
  /\ response' = "none"
  /\ summary' = NoSummary
  /\ selected' = <<>>
  /\ idx' = 1
  /\ targetList' = <<>>
  /\ articles' = <<>>
  /\ jdx' = 1
  /\ targetBlogId' = 0
  /\ entries' = <<>>
  /\ tgtEntries' = <<>>
  /\ cursor' = 0
  /\ tCursor' = 0
  /\ metafields' = <<>>
  /\ handle' = 0
  /\ targetItemId' = 0
  /\ tgtMf' = <<>>
  /\ tally' = NoTally
  /\ pc' = "fetchSrc"
  /\ UNCHANGED <<fails, tgt, clientVars>>

\* The first call of migrate.
Invoke ==
  /\ pc = "idle"
  /\ Enter
  /\ UNCHANGED req

\* The same request is sent again once the first call has answered.
Rerun ==
  /\ pc = "done"
  /\ calls = 1
  /\ Enter
  /\ UNCHANGED req

\* After a dry run has answered, the same request is sent with dryRun off.
RunForReal ==
  /\ pc = "done"
  /\ calls = 1
  /\ req.dryRun
  /\ Enter
  /\ req' = [req EXCEPT !.dryRun = FALSE]

\* The top-level catch: a 500 response carrying only the error message.
Abort ==
  /\ pc' = "done"
  /\ response' = "error"
  /\ summary' = NoSummary

\* GET of the full source listing (products, pages, blogs); a failure is
\* not caught before the top-level catch.
FetchSource ==
  /\ pc = "fetchSrc"
  /\ req.dataType \in {"products", "pages", "blogs"}
  /\ \E out \in Outcomes :
       /\ MayBe(out)
       /\ fails' = Count(out)
       /\ log' = Append(log, shopifyGet("src", req.dataType, 0, out))
       /\ IF out = "ok"
          THEN /\ selected' = Filter(SrcList(req.dataType), req.itemIds)
               /\ pc' = "fetchTgt"
               /\ UNCHANGED <<response, summary>>
          ELSE /\ Abort
               /\ UNCHANGED selected
  /\ UNCHANGED <<clientVars, callVars, tgt, results, prevResults, idx, targetList,
                 articles, jdx, targetBlogId, moVars, mfVars>>

\* GET of the full target listing, inside try/catch: empty on failure.
FetchTarget ==
  /\ pc = "fetchTgt"
  /\ req.dataType \in {"products", "pages", "blogs"}
  /\ \E out \in Outcomes :
       /\ MayBe(out)
       /\ fails' = Count(out)
       /\ log' = Append(log, shopifyGet("tgt", req.dataType, 0, out))
       /\ targetList' = IF out = "ok" THEN tgt[req.dataType] ELSE <<>>
  /\ pc' = "items"
  /\ UNCHANGED <<clientVars, callVars, tgt, results, response, summary, prevResults,
                 selected, idx, articles, jdx, targetBlogId, moVars, mfVars>>

\* The write of one loop iteration of products, collections or pages:
\* PUT to the matched record, POST of a new one, or nothing at all.
WriteItem(item, existing, action, endpoint) ==
  CASE action = "skip" ->
         /\ results' = Append(results, Result(item.id, "item", "skipped"))
         /\ UNCHANGED <<fails, log, tgt>>
    [] action = "simulate" ->
         /\ results' = Append(results, Result(item.id, "item",
                         IF existing # NoMatch THEN "updated" ELSE "created"))
         /\ UNCHANGED <<fails, log, tgt>>
    [] action = "update" ->
         \E out \in PutOutcomes(endpoint, targetList[existing].id) :
           /\ Forced(PutOutcomes(endpoint, targetList[existing].id)) \/ MayBe(out)
           /\ fails' = IF Forced(PutOutcomes(endpoint, targetList[existing].id))
                       THEN fails ELSE Count(out)
           /\ log' = Append(log, shopifyPut("tgt", endpoint, item.id,
                                            targetList[existing].id,
                                            Cleaned(endpoint, item), out))
           /\ results' = Append(results, Result(item.id, "item",
                           WriteStatus(out, "updated")))
           /\ UNCHANGED tgt
    [] action = "create" ->
         \E out \in Outcomes :
           /\ MayBe(out)
           /\ fails' = Count(out)
           /\ log' = Append(log, shopifyPost("tgt", endpoint, item.id,
                                             Cleaned(endpoint, item), out))
           /\ results' = Append(results, Result(item.id, "item",
                           WriteStatus(out, "created")))
           /\ tgt' = IF out = "ok" THEN Created(tgt, endpoint, item) ELSE tgt
    [] OTHER -> UNCHANGED <<results, fails, log, tgt>>

\* ProcessProduct with the target listing read again after the write.
ProcessProductRefetching ==
  /\ pc = "items"
  /\ req.dataType = "products"
  /\ idx <= Len(selected)
  /\ LET product == selected[idx]
         existing == FindByHandle(targetList, product.handle)
     IN  WriteItem(product, existing,
                   Resolve(existing, req.conflictMode, req.dryRun), "products")
  /\ targetList' = tgt'["products"]
  /\ idx' = idx + 1
  /\ UNCHANGED <<clientVars, callVars, pc, response, summary, prevResults, selected,
                 articles, jdx, targetBlogId, moVars, mfVars>>

\* One iteration of the products loop.
ProcessProduct ==
  /\ pc = "items"
  /\ req.dataType = "products"
  /\ idx <= Len(selected)
  /\ LET product == selected[idx]
         existing == FindByHandle(targetList, product.handle)
     IN  WriteItem(product, existing,
                   Resolve(existing, req.conflictMode, req.dryRun), "products")
  /\ idx' = idx + 1
  /\ UNCHANGED <<clientVars, callVars, pc, response, summary, prevResults, selected,
                 targetList, articles, jdx, targetBlogId, moVars, mfVars>>

\* One iteration of the pages loop.
ProcessPage ==
  /\ pc = "items"
  /\ req.dataType = "pages"
  /\ idx <= Len(selected)
  /\ LET page == selected[idx]
         existing == FindByHandle(targetList, page.handle)
     IN  WriteItem(page, existing,
                   Resolve(existing, req.conflictMode, req.dryRun), "pages")
  /\ idx' = idx + 1
  /\ UNCHANGED <<clientVars, callVars, pc, response, summary, prevResults, selected,
                 targetList, articles, jdx, targetBlogId, moVars, mfVars>>

\* Promise.all of the two source GETs, each with its own catch: a failed one
\* contributes no collection.  Custom collections come first.
FetchSourceCollections ==
  /\ pc = "fetchSrc"
  /\ req.dataType = "collections"
  /\ \E outC \in Outcomes, outS \in Outcomes :
       /\ MayBe(outC) /\ MayBe(outS)
       /\ (outC = "ok" \/ outS = "ok" \/ fails + 2 <= MaxFail)
       /\ fails' = (IF outC = "ok" THEN 0 ELSE 1) + Count(outS)
       /\ log' = log \o <<shopifyGet("src", "custom_collections", 0, outC),
                          shopifyGet("src", "smart_collections", 0, outS)>>
       /\ selected' =
            Filter((IF outC = "ok" THEN SrcOfSub("custom") ELSE <<>>)
                   \o (IF outS = "ok" THEN SrcOfSub("smart") ELSE <<>>),
                   req.itemIds)
  /\ pc' = "fetchTgt"
  /\ UNCHANGED <<clientVars, callVars, tgt, results, response, summary, prevResults, idx,
                 targetList, articles, jdx, targetBlogId, moVars, mfVars>>

\* GET of the target's custom collections, inside try/catch.
FetchTargetCustom ==
  /\ pc = "fetchTgt"
  /\ req.dataType = "collections"
  /\ \E out \in Outcomes :
       /\ MayBe(out)
       /\ fails' = Count(out)
       /\ log' = Append(log, shopifyGet("tgt", "custom_collections", 0, out))
       /\ targetList' = IF out = "ok" THEN tgt["custom_collections"] ELSE <<>>
  /\ pc' = "fetchTgtSmart"
  /\ UNCHANGED <<clientVars, callVars, tgt, results, response, summary, prevResults,
                 selected, idx, articles, jdx, targetBlogId, moVars, mfVars>>

\* GET of the target's smart collections; allTarget = custom ++ smart.
FetchTargetSmart ==
  /\ pc = "fetchTgtSmart"
  /\ \E out \in Outcomes :
       /\ MayBe(out)
       /\ fails' = Count(out)
       /\ log' = Append(log, shopifyGet("tgt", "smart_collections", 0, out))
       /\ targetList' =
            targetList \o (IF out = "ok" THEN tgt["smart_collections"] ELSE <<>>)
  /\ pc' = "items"
  /\ UNCHANGED <<clientVars, callVars, tgt, results, response, summary, prevResults,
                 selected, idx, articles, jdx, targetBlogId, moVars, mfVars>>

\* One iteration of the collections loop: endpoint and wrapper follow the
\* sub-type of the source collection.
ProcessCollection ==
  /\ pc = "items"
  /\ req.dataType = "collections"
  /\ idx <= Len(selected)
  /\ LET col == selected[idx]
         existing == FindByHandle(targetList, col.handle)
         endpoint == IF col.sub = "smart" THEN "smart_collections"
                     ELSE "custom_collections"
     IN  WriteItem(col, existing,
                   Resolve(existing, req.conflictMode, req.dryRun), endpoint)
  /\ idx' = idx + 1
  /\ UNCHANGED <<clientVars, callVars, pc, response, summary, prevResults, selected,
                 targetList, articles, jdx, targetBlogId, moVars, mfVars>>

\* The blog part of one iteration of the blogs loop.  A matched blog is
\* reported updated without any request; a failed POST reaches the catch of
\* the iteration.
ProcessBlog ==
  /\ pc = "items"
  /\ req.dataType = "blogs"
  /\ idx <= Len(selected)
  /\ LET blog == selected[idx]
         existingBlog == FindByHandle(targetList, blog.handle)
         action == ResolveBlog(existingBlog, req.conflictMode, req.dryRun)
     IN  CASE action = "simulate" ->
                /\ results' = Append(results, Result(blog.id, "item",
                                IF existingBlog # NoMatch THEN "updated"
                                ELSE "created"))
                /\ idx' = idx + 1
                /\ UNCHANGED <<fails, log, tgt, targetBlogId, pc>>
           [] action = "skip" ->
                /\ results' = Append(results, Result(blog.id, "item", "skipped"))
                /\ idx' = idx + 1
                /\ UNCHANGED <<fails, log, tgt, targetBlogId, pc>>
           [] action = "update" ->
                /\ targetBlogId' = targetList[existingBlog].id
                /\ results' = Append(results, Result(blog.id, "item", "updated"))
                /\ pc' = "fetchArticles"
                /\ UNCHANGED <<fails, log, tgt, idx>>
           [] OTHER ->
                \E out \in Outcomes :
                  /\ MayBe(out)
                  /\ fails' = Count(out)
                  /\ log' = Append(log, shopifyPost("tgt", "blogs", blog.id,
                                          {"title", "handle", "commentable"}, out))
                  /\ IF out = "ok"
                     THEN /\ tgt' = Created(tgt, "blogs", blog)
                          /\ targetBlogId' = Len(tgt["blogs"]) + 1
                          /\ results' = Append(results,
                                               Result(blog.id, "item", "created"))
                          /\ pc' = "fetchArticles"
                          /\ UNCHANGED idx
                     ELSE /\ results' = Append(results,
                                               Result(blog.id, "item", "error"))
                          /\ idx' = idx + 1
                          /\ UNCHANGED <<tgt, targetBlogId, pc>>
  /\ UNCHANGED <<clientVars, callVars, response, summary, prevResults, selected,
                 targetList, articles, jdx, moVars, mfVars>>

\* GET of the source blog's articles; a failure reaches the catch of the blog
\* iteration, which records an error Result for the blog.
FetchArticles ==
  /\ pc = "fetchArticles"
  /\ LET blog == selected[idx]
     IN  \E out \in Outcomes :
           /\ MayBe(out)
           /\ fails' = Count(out)
           /\ log' = Append(log, shopifyGet("src", "articles", blog.id, out))
           /\ IF out = "ok"
              THEN /\ articles' = SrcArticles(blog.id)
                   /\ jdx' = 1
                   /\ pc' = "articles"
                   /\ UNCHANGED <<results, idx>>
              ELSE /\ results' = Append(results, Result(blog.id, "item", "error"))
                   /\ idx' = idx + 1
                   /\ pc' = "items"
                   /\ UNCHANGED <<articles, jdx>>
  /\ UNCHANGED <<clientVars, callVars, tgt, response, summary, prevResults, selected,
                 targetList, targetBlogId, moVars, mfVars>>

\* The article loop as Promise.all over the articles: every POST is sent
\* before any is awaited.
ProcessArticlesAtOnce ==
  /\ pc = "articles"
  /\ jdx <= Len(articles)
  /\ fails' = fails
  /\ log' = log \o [j \in 1..(Len(articles) - jdx + 1) |->
                      shopifyPost("tgt", "articles", articles[jdx + j - 1].id,
                        cleanArticle(FieldsOf("articles", articles[jdx + j - 1])),
                        "ok")]
  /\ results' = results \o [j \in 1..(Len(articles) - jdx + 1) |->
                      Result(articles[jdx + j - 1].id, "Artikel", "created")]
  /\ tgt' = [tgt EXCEPT !["articles"] =
               @ \o [j \in 1..(Len(articles) - jdx + 1) |->
                       [id |-> Len(@) + j, blog |-> targetBlogId,
                        from |-> articles[jdx + j - 1].id]]]
  /\ jdx' = Len(articles) + 1
  /\ UNCHANGED <<clientVars, callVars, pc, response, summary, prevResults, selected, idx,
                 targetList, articles, targetBlogId, moVars, mfVars>>

\* ProcessArticle with the source shop passed to shopifyPost.
ProcessArticleToSource ==
  /\ pc = "articles"
  /\ jdx <= Len(articles)
  /\ LET article == articles[jdx]
     IN  \E out \in Outcomes :
           /\ MayBe(out)
           /\ fails' = Count(out)
           /\ log' = Append(log, shopifyPost("src", "articles", article.id,
                                  cleanArticle(FieldsOf("articles", article)), out))
           /\ results' = Append(results, Result(article.id, "Artikel",
                           WriteStatus(out, "created")))
           /\ UNCHANGED tgt
  /\ jdx' = jdx + 1
  /\ UNCHANGED <<clientVars, callVars, pc, response, summary, prevResults, loopVars,
                 blogVars, moVars, mfVars>>

\* One iteration of the articles loop: every article is POSTed.
ProcessArticle ==
  /\ pc = "articles"
  /\ jdx <= Len(articles)
  /\ LET article == articles[jdx]
     IN  \E out \in Outcomes :
           /\ MayBe(out)
           /\ fails' = Count(out)
           /\ log' = Append(log, shopifyPost("tgt", "articles", article.id,
                                  cleanArticle(FieldsOf("articles", article)), out))
           /\ results' = Append(results, Result(article.id, "Artikel",
                           WriteStatus(out, "created")))
           /\ tgt' = IF out = "ok"
                     THEN [tgt EXCEPT !["articles"] =
                             Append(@, [id |-> Len(@) + 1, blog |-> targetBlogId,
                                        from |-> article.id])]
                     ELSE tgt
  /\ jdx' = jdx + 1
  /\ UNCHANGED <<clientVars, callVars, pc, response, summary, prevResults, selected, idx,
                 targetList, articles, targetBlogId, moVars, mfVars>>

\* The articles loop is over: on to the next blog.
NextBlog ==
  /\ pc = "articles"
  /\ jdx > Len(articles)
  /\ idx' = idx + 1
  /\ pc' = "items"
  /\ UNCHANGED <<clientVars, callVars, fails, tgt, results, log, response, summary,
                 prevResults, selected, targetList, articles, jdx, targetBlogId, moVars, mfVars>>

\* ------------------------------------------------------------- metaobjects
\* The source definitions are queried; a GraphQL error is not caught before
\* the top-level catch.
FetchDefinitions ==
  /\ pc = "fetchSrc"
  /\ req.dataType = "metaobjects"
  /\ \E out \in Outcomes :
       /\ MayBe(out)
       /\ fails' = Count(out)
       /\ log' = Append(log, shopifyGraphQL("src", "QUERY", "definitions", 0, 0,
                                            NoVariables, out))
       /\ IF out = "ok"
          THEN /\ selected' = Filter(SrcDefinitions, req.itemIds)
               /\ pc' = "fetchTgt"
               /\ UNCHANGED <<response, summary>>
          ELSE /\ Abort
               /\ UNCHANGED selected
  /\ UNCHANGED <<clientVars, callVars, tgt, results, prevResults, idx, targetList, jdx,
                 blogVars, moVars, mfVars>>

\* The target definitions are queried, outside any try.
FetchTargetDefinitions ==
  /\ pc = "fetchTgt"
  /\ req.dataType = "metaobjects"
  /\ \E out \in Outcomes :
       /\ MayBe(out)
       /\ fails' = Count(out)
       /\ log' = Append(log, shopifyGraphQL("tgt", "QUERY", "definitions", 0, 0,
                                            NoVariables, out))
       /\ IF out = "ok"
          THEN /\ targetList' = tgt["definitions"]
               /\ pc' = "definitions"
               /\ UNCHANGED <<response, summary>>
          ELSE /\ Abort
               /\ UNCHANGED targetList
  /\ UNCHANGED <<clientVars, callVars, tgt, results, prevResults, selected, idx, jdx,
                 blogVars, moVars, mfVars>>

\* ResolveDefinition that does not look at the target definitions.
ResolveDefinitionUnmatched(existingDef, dryRun) ==
  IF dryRun THEN "simulate" ELSE "create"

\* What the definition step does with a definition.
ResolveDefinition(existingDef, dryRun) ==
  IF existingDef # NoMatch THEN "skip"
  ELSE IF dryRun THEN "simulate"
  ELSE "create"

\* DefinitionFailed without the userErrors check.
DefinitionFailedOnThrowOnly(out) == out = "fail"

\* Whether the answer of metaobjectDefinitionCreate ends the iteration.
DefinitionFailed(out) == out # "ok"

\* The definition step of one iteration of the definitions loop.
ProcessDefinition ==
  /\ pc = "definitions"
  /\ idx <= Len(selected)
  /\ LET def == selected[idx]
         existingDef == FindByType(targetList, def.type)
         action == ResolveDefinition(existingDef, req.dryRun)
         toEntries == /\ pc' = "srcEntries"
                      /\ cursor' = 0
                      /\ entries' = <<>>
                      /\ UNCHANGED idx
     IN  CASE action = "skip" ->
                /\ results' = Append(results, Result(def.id, "Definition", "skipped"))
                /\ toEntries
                /\ UNCHANGED <<fails, log, tgt>>
           [] action = "simulate" ->
                /\ results' = Append(results, Result(def.id, "Definition", "created"))
                /\ toEntries
                /\ UNCHANGED <<fails, log, tgt>>
           [] OTHER ->
                \E out \in MutationOutcomes :
                  /\ MayBe(out)
                  /\ fails' = Count(out)
                  /\ log' = Append(log, shopifyGraphQL("tgt", "MUTATION",
                                          "definitions", def.id, 0,
                                          [body |-> {"type", "name",
                                                     "fieldDefinitions", "access"},
                                           fields |-> <<>>], out))
                  /\ IF DefinitionFailed(out)
                     THEN /\ results' = Append(results,
                                          Result(def.id, "Definition", "error"))
                          /\ idx' = idx + 1
                          /\ UNCHANGED <<tgt, pc, cursor, entries>>
                     ELSE /\ results' = Append(results,
                                          Result(def.id, "Definition", "created"))
                          /\ tgt' = [tgt EXCEPT !["definitions"] =
                                       Append(@, [id |-> Len(@) + 1,
                                                  type |-> def.type,
                                                  from |-> def.id])]
                          /\ toEntries
  /\ UNCHANGED <<clientVars, callVars, response, summary, prevResults, selected, targetList,
                 jdx, blogVars, tgtEntries, tCursor, mfVars>>

\* One page of the source entries of the definition's type; a GraphQL error
\* leaves the loops and reaches the top-level catch.
FetchEntries ==
  /\ pc = "srcEntries"
  /\ LET def == selected[idx]
         page == Page(SrcEntries(def.type), cursor)
     IN  \E out \in Outcomes :
           /\ MayBe(out)
           /\ fails' = Count(out)
           /\ log' = Append(log, shopifyGraphQL("src", "QUERY", "metaobjects",
                                                def.id, cursor, NoVariables, out))
           /\ IF out = "ok"
              THEN /\ entries' = entries \o page.edges
                   /\ cursor' = LastCursor(cursor, page.edges)
                   /\ pc' = IF page.hasNextPage THEN "srcEntries" ELSE "tgtEntries"
                   /\ tgtEntries' = <<>>
                   /\ tCursor' = 0
                   /\ UNCHANGED <<response, summary>>
              ELSE /\ Abort
                   /\ UNCHANGED <<entries, cursor, tgtEntries, tCursor>>
  /\ UNCHANGED <<clientVars, callVars, tgt, results, prevResults, loopVars, jdx, blogVars,
                 mfVars>>

\* One page of the target entries of that type, inside try/catch: a failure
\* ends the pagination with the entries fetched so far.
FetchTargetEntries ==
  /\ pc = "tgtEntries"
  /\ LET def == selected[idx]
         page == Page(OfType(tgt["metaobjects"], def.type), tCursor)
     IN  \E out \in Outcomes :
           /\ MayBe(out)
           /\ fails' = Count(out)
           /\ log' = Append(log, shopifyGraphQL("tgt", "QUERY", "metaobjects",
                                                def.id, tCursor, NoVariables, out))
           /\ IF out = "ok"
              THEN /\ tgtEntries' = tgtEntries \o page.edges
                   /\ tCursor' = LastCursor(tCursor, page.edges)
                   /\ pc' = IF page.hasNextPage THEN "tgtEntries" ELSE "entries"
              ELSE /\ pc' = "entries"
                   /\ UNCHANGED <<tgtEntries, tCursor>>
  /\ jdx' = 1
  /\ UNCHANGED <<clientVars, callVars, tgt, outVars, loopVars, blogVars, entries, cursor,
                 mfVars>>

\* One iteration of the entries loop.
ProcessEntry ==
  /\ pc = "entries"
  /\ jdx <= Len(entries)
  /\ LET entry == entries[jdx]
         def == selected[idx]
         existing == FindByHandle(tgtEntries, entry.handle)
         action == Resolve(existing, req.conflictMode, req.dryRun)
     IN  CASE action = "skip" ->
                /\ results' = Append(results, Result(entry.id, "Eintrag", "skipped"))
                /\ UNCHANGED <<fails, log, tgt>>
           [] action = "simulate" ->
                /\ results' = Append(results, Result(entry.id, "Eintrag",
                                IF existing # NoMatch THEN "updated" ELSE "created"))
                /\ UNCHANGED <<fails, log, tgt>>
           [] action = "update" ->
                \E out \in MutationOutcomes :
                  /\ MayBe(out)
                  /\ fails' = Count(out)
                  /\ log' = Append(log, shopifyGraphQL("tgt", "MUTATION",
                              "metaobjects", entry.id, tgtEntries[existing].id,
                              [body |-> {"fields"},
                               fields |-> EntryInput(entry.fields)], out))
                  /\ results' = Append(results, Result(entry.id, "Eintrag",
                                  WriteStatus(out, "updated")))
                  /\ UNCHANGED tgt
           [] action = "create" ->
                \E out \in MutationOutcomes :
                  /\ MayBe(out)
                  /\ fails' = Count(out)
                  /\ log' = Append(log, shopifyGraphQL("tgt", "MUTATION",
                                          "metaobjects", entry.id, 0,
                                          [body |-> {"type", "handle", "fields"},
                                           fields |-> EntryInput(entry.fields)],
                                          out))
                  /\ results' = Append(results, Result(entry.id, "Eintrag",
                                  WriteStatus(out, "created")))
                  /\ tgt' = IF out = "ok"
                            THEN [tgt EXCEPT !["metaobjects"] =
                                    Append(@, [id |-> Len(@) + 1,
                                               handle |-> entry.handle,
                                               type |-> def.type,
                                               from |-> entry.id])]
                            ELSE tgt
           [] OTHER -> UNCHANGED <<results, fails, log, tgt>>
  /\ jdx' = jdx + 1
  /\ UNCHANGED <<clientVars, callVars, pc, response, summary, prevResults, loopVars,
                 blogVars, moVars, mfVars>>

\* The entries loop is over: on to the next definition.
NextDefinition ==
  /\ pc = "entries"
  /\ jdx > Len(entries)
  /\ idx' = idx + 1
  /\ pc' = "definitions"
  /\ UNCHANGED <<clientVars, callVars, fails, tgt, log, outVars, selected, targetList, jdx,
                 blogVars, moVars, mfVars>>

\* -------------------------------------------------------------- metafields
\* metafieldsOwnerType || "products"
OwnerType == IF req.metafieldsOwnerType = "" THEN "products"
             ELSE req.metafieldsOwnerType

\* The keys of OWNER_TYPE_MAP.
OwnerTypes == {"products", "collections", "pages", "blogs"}

\* itemIds in the order of the request array (ascending here).
RECURSIVE IdSeq(_)
IdSeq(ids) ==
  IF ids = {} THEN <<>>
  ELSE LET least == CHOOSE i \in ids : \A k \in ids : i <= k
       IN  <<least>> \o IdSeq(ids \ {least})

\* mf => t.namespace === mf.namespace && t.key === mf.key
FindByKey(list, key) ==
  IF \E n \in 1..Len(list) : list[n].key = key
  THEN CHOOSE n \in 1..Len(list) :
         /\ list[n].key = key
         /\ \A m \in 1..(n - 1) : list[m].key # key
  ELSE NoMatch

\* The answer to GET /<resource>.json?handle=<h>&limit=1.
FilteredList(list, h) ==
  LET hits == SelectSeq(list, LAMBDA t : t.handle = h)
  IN  IF Len(hits) > 0 THEN <<hits[1]>> ELSE <<>>

\* A GET below /<resource>/<id> is answered 404 when the store has no such id.
ItemOutcomes(id) == IF id \in 1..NumItems THEN Outcomes ELSE {"fail"}

\* An iteration ended with an error Result (the catch of the iteration, or
\* the missing target owner): on to the next item.
ItemFailed(itemId, message) ==
  /\ results' = Append(results, ResultWith(itemId, "Metafelder", "error", message))
  /\ idx' = idx + 1
  /\ pc' = "mfItems"

\* The lookup in OWNER_TYPE_MAP: an unknown type ends the call with one Result.
CheckOwnerType ==
  /\ pc = "fetchSrc"
  /\ req.dataType = "metafields"
  /\ IF OwnerType \in OwnerTypes
     THEN /\ selected' = IdSeq(req.itemIds)
          /\ pc' = "mfItems"
          /\ UNCHANGED results
     ELSE /\ results' = Append(results, Result(0, "Metafelder", "error"))
          /\ selected' = <<>>
          /\ pc' = "mfItems"
  /\ UNCHANGED <<clientVars, callVars, fails, tgt, log, response, summary, prevResults, idx,
                 targetList, jdx, blogVars, moVars, mfVars>>

\* IsEmpty answering that no list is empty.
IsEmptyNever(metafieldList) == FALSE

\* metafields.length === 0
IsEmpty(metafieldList) == Len(metafieldList) = 0

\* GET of the source item's metafields; an empty list ends the iteration.
FetchSourceMetafields ==
  /\ pc = "mfItems"
  /\ req.dataType = "metafields"
  /\ idx <= Len(selected)
  /\ LET itemId == selected[idx]
     IN  \E out \in ItemOutcomes(itemId) :
           /\ Forced(ItemOutcomes(itemId)) \/ MayBe(out)
           /\ fails' = IF Forced(ItemOutcomes(itemId)) THEN fails ELSE Count(out)
           /\ log' = Append(log, shopifyGet("src", "metafields", itemId, out))
           /\ IF out # "ok"
              THEN /\ ItemFailed(itemId, Thrown)
                   /\ UNCHANGED metafields
              ELSE /\ metafields' = SrcMetafields(itemId)
                   /\ IF IsEmpty(SrcMetafields(itemId))
                      THEN /\ results' = Append(results,
                                           Result(itemId, "Metafelder", "skipped"))
                           /\ idx' = idx + 1
                           /\ UNCHANGED pc
                      ELSE /\ pc' = "mfSrcItem"
                           /\ UNCHANGED <<results, idx>>
  /\ UNCHANGED <<clientVars, callVars, tgt, response, summary, prevResults, selected,
                 targetList, jdx, blogVars, moVars, handle, targetItemId, tgtMf,
                 tally>>

\* GET of the source item itself, for its handle.
FetchSourceItem ==
  /\ pc = "mfSrcItem"
  /\ LET itemId == selected[idx]
     IN  \E out \in Outcomes :
           /\ MayBe(out)
           /\ fails' = Count(out)
           /\ log' = Append(log, shopifyGet("src", OwnerType, itemId, out))
           /\ IF out # "ok"
              THEN /\ ItemFailed(itemId, Thrown)
                   /\ UNCHANGED handle
              ELSE /\ handle' = SrcList(OwnerType)[itemId].handle
                   /\ pc' = "mfFindTarget"
                   /\ UNCHANGED <<results, idx>>
  /\ UNCHANGED <<clientVars, callVars, tgt, response, summary, prevResults, selected,
                 targetList, jdx, blogVars, moVars, metafields, targetItemId, tgtMf,
                 tally>>

\* Resolved with the dry-run answer given before the owner is looked at.
ResolvedDryRunFirst(itemId, target) ==
  /\ targetItemId' = target
  /\ jdx' = 1
  /\ tally' = NoTally
  /\ IF req.dryRun
     THEN /\ results' = Append(results, Result(itemId, "Metafelder", "created"))
          /\ idx' = idx + 1
          /\ pc' = "mfItems"
     ELSE IF target = 0
     THEN ItemFailed(itemId, NotFound)
     ELSE /\ pc' = "mfTgtMetafields"
          /\ UNCHANGED <<results, idx>>

\* What follows the resolution of the target owner.
Resolved(itemId, target) ==
  /\ targetItemId' = target
  /\ jdx' = 1
  /\ tally' = NoTally
  /\ IF target = 0
     THEN ItemFailed(itemId, NotFound)
     ELSE IF req.dryRun
     THEN /\ results' = Append(results, Result(itemId, "Metafelder", "created"))
          /\ idx' = idx + 1
          /\ pc' = "mfItems"
     ELSE /\ pc' = "mfTgtMetafields"
          /\ UNCHANGED <<results, idx>>

\* GET of the target listing filtered by handle; its first record is taken.
FindTarget ==
  /\ pc = "mfFindTarget"
  /\ LET itemId == selected[idx]
         tgtArr == FilteredList(tgt[OwnerType], handle)
     IN  \E out \in Outcomes :
           /\ MayBe(out)
           /\ fails' = Count(out)
           /\ log' = Append(log, shopifyGet("tgt", OwnerType, itemId, out))
           /\ IF out = "ok"
              THEN Resolved(itemId, IF Len(tgtArr) > 0 THEN tgtArr[1].id ELSE 0)
              ELSE /\ pc' = "mfFallback"
                   /\ UNCHANGED <<results, idx, jdx, targetItemId, tally>>
  /\ UNCHANGED <<clientVars, callVars, tgt, response, summary, prevResults, selected,
                 targetList, blogVars, moVars, metafields, handle, tgtMf>>

\* The filtered GET answered by a store that does not apply the handle
\* filter: the list holds some record of the listing, and its first record
\* is taken without a look at its handle.
FindTargetAnyList ==
  /\ pc = "mfFindTarget"
  /\ LET itemId == selected[idx]
     IN  \E k \in 1..Len(tgt[OwnerType]) :
           /\ log' = Append(log, shopifyGet("tgt", OwnerType, itemId, "ok"))
           /\ Resolved(itemId, tgt[OwnerType][k].id)
  /\ UNCHANGED <<clientVars, callVars, fails, tgt, response, summary,
                 prevResults, selected, targetList, blogVars, moVars,
                 metafields, handle, tgtMf>>

\* The catch of the filtered GET: the whole listing is fetched and scanned;
\* a failure here reaches the catch of the iteration.
FindTargetFallback ==
  /\ pc = "mfFallback"
  /\ LET itemId == selected[idx]
         match == FindByHandle(tgt[OwnerType], handle)
     IN  \E out \in Outcomes :
           /\ MayBe(out)
           /\ fails' = Count(out)
           /\ log' = Append(log, shopifyGet("tgt", OwnerType, 0, out))
           /\ IF out = "ok"
              THEN Resolved(itemId, IF match # NoMatch
                                    THEN tgt[OwnerType][match].id ELSE 0)
              ELSE /\ ItemFailed(itemId, Thrown)
                   /\ UNCHANGED <<jdx, targetItemId, tally>>
  /\ UNCHANGED <<clientVars, callVars, tgt, response, summary, prevResults, selected,
                 targetList, blogVars, moVars, metafields, handle, tgtMf>>

\* GET of the target owner's metafields, inside try/catch: empty on failure.
FetchTargetMetafields ==
  /\ pc = "mfTgtMetafields"
  /\ \E out \in Outcomes :
       /\ MayBe(out)
       /\ fails' = Count(out)
       /\ log' = Append(log, shopifyGet("tgt", "metafields", selected[idx], out))
       /\ tgtMf' = IF out = "ok"
                   THEN SelectSeq(tgt["metafields"],
                                  LAMBDA t : t.owner = targetItemId)
                   ELSE <<>>
  /\ pc' = "mfFields"
  /\ UNCHANGED <<clientVars, callVars, tgt, outVars, loopVars, jdx, blogVars, moVars,
                 metafields, handle, targetItemId, tally>>

\* One iteration of the metafields loop of an item.
ProcessMetafield ==
  /\ pc = "mfFields"
  /\ jdx <= Len(metafields)
  /\ LET mf == metafields[jdx]
         existingMf == FindByKey(tgtMf, mf.key)
     IN  IF existingMf # NoMatch /\ req.conflictMode = "skip"
         THEN /\ tally' = [tally EXCEPT !.skipped = @ + 1]
              /\ UNCHANGED <<fails, log, tgt>>
         ELSE IF existingMf # NoMatch /\ req.conflictMode = "overwrite"
         THEN \E out \in Outcomes :
                /\ MayBe(out)
                /\ fails' = Count(out)
                /\ log' = Append(log, shopifyPut("tgt", "metafields", mf.id,
                                                 tgtMf[existingMf].id,
                                                 {"id", "value", "type"}, out))
                /\ tally' = IF out = "ok" THEN [tally EXCEPT !.updated = @ + 1]
                            ELSE [tally EXCEPT !.errors = @ + 1]
                /\ UNCHANGED tgt
         ELSE IF existingMf = NoMatch
         THEN \E out \in Outcomes :
                /\ MayBe(out)
                /\ fails' = Count(out)
                /\ log' = Append(log, shopifyPost("tgt", "metafields", mf.id,
                                  {"namespace", "key", "value", "type"}, out))
                /\ tally' = IF out = "ok" THEN [tally EXCEPT !.created = @ + 1]
                            ELSE [tally EXCEPT !.errors = @ + 1]
                /\ tgt' = IF out = "ok"
                          THEN [tgt EXCEPT !["metafields"] =
                                  Append(@, [id |-> Len(@) + 1,
                                             owner |-> targetItemId,
                                             key |-> mf.key, from |-> mf.id])]
                          ELSE tgt
         ELSE UNCHANGED <<tally, fails, log, tgt>>
  /\ jdx' = jdx + 1
  /\ UNCHANGED <<clientVars, callVars, pc, outVars, loopVars, blogVars, moVars, metafields,
                 handle, targetItemId, tgtMf>>

\* FinishItem with the status taken from the prevailing counter.
FinishItemByTally ==
  /\ pc = "mfFields"
  /\ jdx > Len(metafields)
  /\ results' = Append(results, Result(selected[idx], "Metafelder",
                         IF tally.errors > 0 THEN "error"
                         ELSE IF tally.created > 0 THEN "created"
                         ELSE IF tally.updated > 0 THEN "updated"
                         ELSE "skipped"))
  /\ idx' = idx + 1
  /\ pc' = "mfItems"
  /\ UNCHANGED <<clientVars, callVars, fails, tgt, log, response, summary, prevResults,
                 selected, targetList, jdx, blogVars, moVars, mfVars>>

\* After the metafields loop: the one Result of the item.
FinishItem ==
  /\ pc = "mfFields"
  /\ jdx > Len(metafields)
  /\ results' = Append(results, Result(selected[idx], "Metafelder",
                         IF tally.errors > 0 THEN "error" ELSE "created"))
  /\ idx' = idx + 1
  /\ pc' = "mfItems"
  /\ UNCHANGED <<clientVars, callVars, fails, tgt, log, response, summary, prevResults,
                 selected, targetList, jdx, blogVars, moVars, mfVars>>

\* After the branch: the summary is counted and {results, summary} returned.
Respond ==
  /\ pc \in {"items", "definitions", "mfItems"}
  /\ idx > Len(selected)
  /\ summary' = Summary(results)
  /\ response' = "results"
  /\ pc' = "done"
  /\ UNCHANGED <<clientVars, callVars, fails, tgt, results, log, prevResults, selected,
                 idx, targetList, articles, jdx, targetBlogId, moVars, mfVars>>

Next ==
  \/ Invoke
  \/ Rerun
  \/ RunForReal
  \/ FetchSource
  \/ FetchTarget
  \/ ProcessProduct
  \/ ProcessPage
  \/ FetchSourceCollections
  \/ FetchTargetCustom
  \/ FetchTargetSmart
  \/ ProcessCollection
  \/ ProcessBlog
  \/ FetchArticles
  \/ ProcessArticle
  \/ NextBlog
  \/ FetchDefinitions
  \/ FetchTargetDefinitions
  \/ ProcessDefinition
  \/ FetchEntries
  \/ FetchTargetEntries
  \/ ProcessEntry
  \/ NextDefinition
  \/ CheckOwnerType
  \/ FetchSourceMetafields
  \/ FetchSourceItem
  \/ FindTarget
  \/ FindTargetFallback
  \/ FetchTargetMetafields
  \/ ProcessMetafield
  \/ FinishItem
  \/ Respond

Spec == Init /\ [][Next]_vars

\* The engine against a target that holds a record for every source item
\* and that may answer the handle-filtered GET with any of its records.
InitAnyList ==
  /\ EngineStart
  /\ tgt = [r \in Resources |-> InitTargetList(r, NumItems)]
  /\ OrchIdle
  /\ ProxyIdle

NextAnyList ==
  \/ Next
  \/ FindTargetAnyList

SpecAnyList == InitAnyList /\ [][NextAnyList]_vars

\* ------------------------------------------------------------ orchestrator
\* MigrationProgress.startMigration: one action per stretch of code between
\* two awaits; the set-state calls of a stretch take effect together.
MaxSelected == 1

\* The selections of a kind: none, or MaxSelected ids.
Selections == {{}, 1..MaxSelected}

METAFIELD_TYPES == {"products", "collections", "pages", "blogs"}

\* Object.keys(selectedItems).filter(dt => selectedItems[dt].length > 0)
dataTypesToMigrate == SelectSeq(Kinds, LAMBDA k : selectedItems[k] # {})

RECURSIVE SumLengths(_)
SumLengths(ks) ==
  IF ks = <<>> THEN 0
  ELSE Cardinality(selectedItems[Head(ks)]) + SumLengths(Tail(ks))

totalSelected == SumLengths(dataTypesToMigrate)

\* metafieldPasses that counts a pass for every kind to migrate.
metafieldPassesOfEveryKind ==
  IF migrateMetafields THEN Len(dataTypesToMigrate) ELSE 0

metafieldPasses ==
  IF migrateMetafields
  THEN Len(SelectSeq(dataTypesToMigrate,
                     LAMBDA k : k \in METAFIELD_TYPES /\ selectedItems[k] # {}))
  ELSE 0

totalMigrationSteps == Len(dataTypesToMigrate) + metafieldPasses

\* The condition of the metafields pass without METAFIELD_TYPES.
MetafieldPassOfAnyKind(kind) ==
  migrateMetafields /\ selectedItems[kind] # {}

\* migrateMetafields && METAFIELD_TYPES.includes(dt) && length > 0
MetafieldPassDue(kind) ==
  migrateMetafields /\ kind \in METAFIELD_TYPES /\ selectedItems[kind] # {}

\* Math.round((stepsDone / totalMigrationSteps) * 100)
Percent(done, total) == (200 * done + total) \div (2 * total)

Statuses == {"created", "updated", "skipped", "error"}

\* The summaries migrateDataType can return for a call with these ids: that
\* of an empty result list and those of one Result per id.
EngineAnswers(ids) ==
  {Summary(<<>>)}
    \cup {Summary([i \in 1..Cardinality(ids) |-> Result(i, "item", st)]) :
            st \in Statuses}

AddSummary(a, b) ==
  [total |-> a.total + b.total, created |-> a.created + b.created,
   updated |-> a.updated + b.updated, skipped |-> a.skipped + b.skipped,
   errors |-> a.errors + b.errors]

\* A call of migrateDataType.
EngineCall(dataType, itemIds, ownerType) ==
  [dataType |-> dataType, itemIds |-> itemIds, ownerType |-> ownerType,
   state |-> "pending"]

\* The pending call is settled: it returned or it threw.
Settled ==
  engineCalls' = [engineCalls EXCEPT ![Len(engineCalls)].state = "settled"]

\* stepsDone++; setCompletedSteps(stepsDone)
StepDone ==
  /\ stepsDone' = stepsDone + 1
  /\ completedSteps' = stepsDone + 1

\* The click on the start button, up to the loop.
startMigration ==
  /\ at = "idle"
  /\ ~running /\ ~finished
  /\ totalSelected # 0
  /\ running' = TRUE
  /\ finished' = FALSE
  /\ completedSteps' = 0
  /\ totalSteps' = totalMigrationSteps
  /\ globalSummary' = NoSummary
  /\ stepsDone' = 0
  /\ dt' = 1
  /\ engineCalls' = <<>>
  /\ at' = "loop"
  /\ UNCHANGED <<selectedItems, migrateMetafields, progress, summaryState,
                 engineVars, proxyVars>>

\* The head of an iteration up to the await of the entity call.
CallEntity ==
  /\ at = "loop"
  /\ dt <= Len(dataTypesToMigrate)
  /\ progress' = Percent(stepsDone, totalMigrationSteps)
  /\ engineCalls' = Append(engineCalls,
                      EngineCall(dataTypesToMigrate[dt],
                                 selectedItems[dataTypesToMigrate[dt]], ""))
  /\ at' = "entity"
  /\ UNCHANGED <<selectedItems, migrateMetafields, running, finished,
                 totalSteps, completedSteps, summaryState, globalSummary,
                 stepsDone, dt, engineVars, proxyVars>>

\* After the entity pass: on to the metafields pass or to the next kind.
AfterEntity ==
  /\ StepDone
  /\ IF MetafieldPassDue(dataTypesToMigrate[dt])
     THEN at' = "metafieldsStart" /\ UNCHANGED dt
     ELSE at' = "loop" /\ dt' = dt + 1

\* The entity call returned: its summary is added.
EntityReturned ==
  /\ at = "entity"
  /\ \E res \in EngineAnswers(selectedItems[dataTypesToMigrate[dt]]) :
       globalSummary' = AddSummary(globalSummary, res)
  /\ Settled
  /\ AfterEntity
  /\ UNCHANGED <<selectedItems, migrateMetafields, running, finished, progress,
                 totalSteps, summaryState, engineVars, proxyVars>>

\* The entity call threw: every selected item counts as an error.
EntityThrew ==
  /\ at = "entity"
  /\ globalSummary' =
       [globalSummary EXCEPT
          !.errors = @ + Cardinality(selectedItems[dataTypesToMigrate[dt]])]
  /\ Settled
  /\ AfterEntity
  /\ UNCHANGED <<selectedItems, migrateMetafields, running, finished, progress,
                 totalSteps, summaryState, engineVars, proxyVars>>

\* The head of the metafields pass up to the await of its call.
CallMetafields ==
  /\ at = "metafieldsStart"
  /\ progress' = Percent(stepsDone, totalMigrationSteps)
  /\ engineCalls' = Append(engineCalls,
                      EngineCall("metafields",
                                 selectedItems[dataTypesToMigrate[dt]],
                                 dataTypesToMigrate[dt]))
  /\ at' = "metafields"
  /\ UNCHANGED <<selectedItems, migrateMetafields, running, finished,
                 totalSteps, completedSteps, summaryState, globalSummary,
                 stepsDone, dt, engineVars, proxyVars>>

\* The metafields call returned: its summary is added.
MetafieldsReturned ==
  /\ at = "metafields"
  /\ \E res \in EngineAnswers(selectedItems[dataTypesToMigrate[dt]]) :
       globalSummary' = AddSummary(globalSummary, res)
  /\ Settled
  /\ StepDone
  /\ dt' = dt + 1
  /\ at' = "loop"
  /\ UNCHANGED <<selectedItems, migrateMetafields, running, finished, progress,
                 totalSteps, summaryState, engineVars, proxyVars>>

\* The metafields call threw: only the log tells.
MetafieldsThrew ==
  /\ at = "metafields"
  /\ Settled
  /\ StepDone
  /\ dt' = dt + 1
  /\ at' = "loop"
  /\ UNCHANGED <<selectedItems, migrateMetafields, running, finished, progress,
                 totalSteps, summaryState, globalSummary, engineVars,
                 proxyVars>>

\* After the loop; startMigration returns and its locals are gone.
FinishMigration ==
  /\ at = "loop"
  /\ dt > Len(dataTypesToMigrate)
  /\ progress' = 100
  /\ summaryState' = globalSummary
  /\ running' = FALSE
  /\ finished' = TRUE
  /\ at' = "idle"
  /\ globalSummary' = NoSummary
  /\ stepsDone' = 0
  /\ dt' = 1
  /\ engineCalls' = <<>>
  /\ UNCHANGED <<selectedItems, migrateMetafields, totalSteps, completedSteps,
                 engineVars, proxyVars>>

\* The click on "Neue Migration".
NewMigration ==
  /\ finished
  /\ finished' = FALSE
  /\ progress' = 0
  /\ summaryState' = NoSummary
  /\ UNCHANGED <<selectedItems, migrateMetafields, running, totalSteps,
                 completedSteps, globalSummary, stepsDone, dt, at, engineCalls,
                 engineVars, proxyVars>>

\* The engine at rest while the client is looked at.
EngineIdle ==
  /\ EngineInit
  /\ req = [dataType |-> "products", itemIds |-> {}, conflictMode |-> "skip",
            dryRun |-> FALSE, metafieldsOwnerType |-> ""]
  /\ tgt = [r \in Resources |-> <<>>]

\* The component is mounted over any selection of the store.
OrchInit ==
  /\ EngineIdle
  /\ ProxyIdle
  /\ selectedItems \in [KindSet -> Selections]
  /\ migrateMetafields \in BOOLEAN
  /\ OrchState

OrchNext ==
  \/ startMigration
  \/ CallEntity
  \/ EntityReturned
  \/ EntityThrew
  \/ CallMetafields
  \/ MetafieldsReturned
  \/ MetafieldsThrew
  \/ FinishMigration
  \/ NewMigration

OrchSpec == OrchInit /\ [][OrchNext]_vars

\* Every pending call of migrateDataType returns or throws, and the code
\* that follows an await runs.
OrchLive ==
  /\ OrchSpec
  /\ WF_vars(CallEntity) /\ WF_vars(EntityReturned \/ EntityThrew)
  /\ WF_vars(CallMetafields) /\ WF_vars(MetafieldsReturned \/ MetafieldsThrew)
  /\ WF_vars(FinishMigration)

\* ------------------------------------------------------------------ proxy
\* The requests that reach shopify-proxy: a preflight or a POST whose JSON
\* body holds any of the fields of ShopifyProxyRequest.
ProxyRequests ==
  [http : {"OPTIONS", "POST"}, shopUrl : {Absent, "shop"},
   accessToken : {Absent, "token"}, endpoint : {Absent, "/admin/x.json"},
   method : {Absent, "GET", "POST", "PUT"}, body : {Absent, "body"},
   graphql : {Absent, "query"}]

\* The body fetchMetaobjectDefinitions hands to shopifyProxy.
fetchMetaobjectDefinitions(shopUrl, accessToken) ==
  [http |-> "POST", shopUrl |-> shopUrl, accessToken |-> accessToken,
   endpoint |-> Absent, method |-> Absent, body |-> Absent,
   graphql |-> "query"]

\* The answers of the store to a forwarded request.
StoreAnswers == {"ok", "notOk", "throws"}

\* const { ..., method = "GET", ... } = await req.json()
MethodOf(r) == IF r.method = Absent THEN "GET" ELSE r.method

\* !shopUrl || !accessToken || !endpoint
Rejected(r) ==
  r.shopUrl = Absent \/ r.accessToken = Absent \/ r.endpoint = Absent

\* The request the proxy sends to the store.
Forward(r) ==
  [url |-> r.endpoint, method |-> MethodOf(r), token |-> r.accessToken,
   body |-> IF r.body # Absent /\ MethodOf(r) # "GET" THEN r.body ELSE Absent]

\* The preflight is answered with the CORS headers alone.
ProxyPreflight ==
  /\ proxyResponse = NoResponse
  /\ proxyRequest.http = "OPTIONS"
  /\ proxyResponse' = [status |-> 200, body |-> "cors"]
  /\ UNCHANGED <<proxyRequest, forwarded, engineVars, orchVars>>

\* The 400 of a request without shopUrl, accessToken or endpoint.
ProxyReject ==
  /\ proxyResponse = NoResponse
  /\ proxyRequest.http = "POST"
  /\ Rejected(proxyRequest)
  /\ proxyResponse' = [status |-> 400, body |-> "error"]
  /\ UNCHANGED <<proxyRequest, forwarded, engineVars, orchVars>>

\* The request is sent to the store and the store's answer is passed on.
ProxyForward ==
  /\ proxyResponse = NoResponse
  /\ proxyRequest.http = "POST"
  /\ ~Rejected(proxyRequest)
  /\ forwarded' = Append(forwarded, Forward(proxyRequest))
  /\ \E answer \in StoreAnswers :
       proxyResponse' =
         CASE answer = "ok" -> [status |-> 200, body |-> "data"]
           [] answer = "notOk" -> [status |-> 404, body |-> "error"]
           [] OTHER -> [status |-> 500, body |-> "error"]
  /\ UNCHANGED <<proxyRequest, engineVars, orchVars>>

ProxyInit ==
  /\ EngineIdle
  /\ OrchIdle
  /\ proxyRequest \in ProxyRequests
  /\ proxyResponse = NoResponse
  /\ forwarded = <<>>

ProxyNext ==
  \/ ProxyPreflight
  \/ ProxyReject
  \/ ProxyForward

ProxySpec == ProxyInit /\ [][ProxyNext]_vars

\* ================================================================== claims
LogIdx == 1..Len(log)

IsCreate(r) == r.verb = "POST" \/ (r.verb = "MUTATION" /\ r.ref = 0)

IsUpdate(r) == r.verb = "PUT" \/ (r.verb = "MUTATION" /\ r.ref # 0)

TargetWrites == {n \in LogIdx : log[n].store = "tgt" /\ IsWrite(log[n])}

\* C1: a call with dryRun = true sends no POST, no PUT and no GraphQL
\* mutation to the target store at any point, whatever the entity kind, the
\* conflict mode and the state of the two stores.
C1_DryRunIssuesNoWrite == req.dryRun => TargetWrites = {}

\* A dry run of every kind has answered with a predicted update.
C1_Witness ==
  /\ req.dryRun
  /\ response = "results"
  /\ \E n \in 1..Len(results) : results[n].status = "updated"
  /\ \E n \in LogIdx : log[n].store = "tgt"

\* The type of the entries a metaobjects request is about: a query carries
\* the definition, a mutation the entry (entry ids are 10 * type + j).
EntryType(r) == IF r.verb = "QUERY" THEN SrcDefinitions[r.item].type
                ELSE r.item \div 10

DefinitionCreates(type, outs) ==
  {m \in LogIdx : /\ log[m].res = "definitions"
                  /\ log[m].verb = "MUTATION"
                  /\ SrcDefinitions[log[m].item].type = type
                  /\ log[m].out \in outs}

\* C2: in migrateMetaobjects the definition step of a type (found on the
\* target, created, or failed) is over before any entry of that type is
\* created or updated; and after a failed definition create (thrown error or
\* userErrors) no entry of that type is fetched or written and no entry
\* Result of that type is recorded.
C2_DefinitionBeforeEntries ==
  /\ \A n \in LogIdx :
       (log[n].res = "metaobjects" /\ log[n].verb = "MUTATION") =>
         LET type == EntryType(log[n])
         IN  \/ FindByType(targetList, type) # NoMatch
             \/ \E m \in DefinitionCreates(type, {"ok"}) : m < n
  /\ \A n \in LogIdx :
       log[n].res = "metaobjects" =>
         DefinitionCreates(EntryType(log[n]), {"fail", "userErrors"}) = {}
  /\ \A n \in 1..Len(results) :
       results[n].title = "Eintrag" =>
         DefinitionCreates(results[n].id \div 10, {"fail", "userErrors"}) = {}

\* One definition create answered userErrors, and the entries of another
\* definition, created in the same call, were written.
C2_Witness ==
  /\ response = "results"
  /\ \E type \in 1..NumItems : DefinitionCreates(type, {"userErrors"}) # {}
  /\ \E type \in 1..NumItems :
       /\ DefinitionCreates(type, {"ok"}) # {}
       /\ \E n \in LogIdx : /\ log[n].res = "metaobjects"
                            /\ log[n].verb = "MUTATION"
                            /\ EntryType(log[n]) = type

\* ------------------------------------------------ the item being processed
\* The kind of the item the next step of a loop processes ("none" between
\* loops); blog articles, which are never matched, are left out.
CurTitle ==
  CASE pc = "items" /\ idx <= Len(selected) -> "item"
    [] pc = "definitions" /\ idx <= Len(selected) -> "Definition"
    [] pc = "entries" /\ jdx <= Len(entries) -> "Eintrag"
    [] pc = "mfFields" /\ jdx <= Len(metafields) -> "Metafeld"
    [] OTHER -> "none"

CurId ==
  CASE CurTitle \in {"item", "Definition"} -> selected[idx].id
    [] CurTitle = "Eintrag" -> entries[jdx].id
    [] CurTitle = "Metafeld" -> metafields[jdx].id
    [] OTHER -> 0

IdAt(list, n) == IF n = NoMatch THEN 0 ELSE list[n].id

\* The id of the target record the item's natural key matches first (0: none).
CurMatch ==
  CASE CurTitle = "item" ->
         IdAt(targetList, FindByHandle(targetList, selected[idx].handle))
    [] CurTitle = "Definition" ->
         IdAt(targetList, FindByType(targetList, selected[idx].type))
    [] CurTitle = "Eintrag" ->
         IdAt(tgtEntries, FindByHandle(tgtEntries, entries[jdx].handle))
    [] CurTitle = "Metafeld" ->
         IdAt(tgtMf, FindByKey(tgtMf, metafields[jdx].key))
    [] OTHER -> 0

\* The step sends exactly one request; LastReq is that request.
OneRequest == Len(log') = Len(log) + 1 /\ SubSeq(log', 1, Len(log)) = log

LastReq == log'[Len(log')]

OneCreate ==
  /\ OneRequest
  /\ LastReq.store = "tgt" /\ IsCreate(LastReq) /\ LastReq.item = CurId

OneUpdate ==
  /\ OneRequest
  /\ LastReq.store = "tgt" /\ IsUpdate(LastReq) /\ LastReq.item = CurId
  /\ LastReq.ref = CurMatch

Pushed(status) == results' = Append(results, Result(CurId, CurTitle, status))

AllOk == \A n \in LogIdx : log[n].out = "ok"

\* C3 as stated: every unmatched item of a non-dry-run call gets exactly one
\* create write and the status created, under any conflict mode.
C3_UnmatchedAlwaysCreated ==
  [][(CurTitle \in {"item", "Definition", "Eintrag"} /\ CurMatch = 0
      /\ ~req.dryRun) => (OneCreate /\ Pushed("created"))]_vars

\* The scenario of C3: one unmatched product, empty target, mode skip.
C3_Scenario ==
  (/\ req.dataType = "products" /\ req.itemIds = {1}
   /\ req.conflictMode = "skip" /\ ~req.dryRun
   /\ response = "results" /\ AllOk /\ targetList = <<>>)
  => /\ results = <<Result(1, "item", "created")>>
     /\ summary = [total |-> 1, created |-> 1, updated |-> 0, skipped |-> 0,
                   errors |-> 0]

\* C3, amended: in a non-dry-run call every unmatched product, collection,
\* page, blog, metaobject definition and metaobject entry gets, under any
\* conflict mode, exactly one create write; its status is created if that
\* write succeeds and error if it fails.  An unmatched metafield gets exactly
\* one POST, counted as created or as error in its owner's tally.  The
\* scenario (one unmatched product, empty target, skip, all requests
\* succeeding) yields one created Result and summary {1, 1, 0, 0, 0}.
C3_UnmatchedGetsOneCreate ==
  /\ [][(CurMatch = 0 /\ ~req.dryRun) =>
          CASE CurTitle \in {"item", "Definition", "Eintrag"} ->
                 /\ OneCreate
                 /\ Pushed(IF LastReq.out = "ok" THEN "created" ELSE "error")
            [] CurTitle = "Metafeld" ->
                 /\ OneCreate
                 /\ results' = results
                 /\ tally' = IF LastReq.out = "ok"
                             THEN [tally EXCEPT !.created = @ + 1]
                             ELSE [tally EXCEPT !.errors = @ + 1]
            [] OTHER -> TRUE]_vars
  /\ []C3_Scenario

\* Under mode skip one unmatched item was created and the create of another
\* failed, which is reported as error.
C3_Witness ==
  /\ ~req.dryRun /\ req.conflictMode = "skip" /\ response = "results"
  /\ \E n \in TargetWrites, m \in TargetWrites :
       /\ IsCreate(log[n]) /\ log[n].out = "ok"
       /\ IsCreate(log[m]) /\ log[m].out = "fail"
       /\ \E k \in 1..Len(results) :
            results[k].id = log[n].item /\ results[k].status = "created"
       /\ \E k \in 1..Len(results) :
            results[k].id = log[m].item /\ results[k].status = "error"

\* C4 as stated: a matched item under mode skip gets no write and the status
\* skipped, in every call.
C4_MatchedSkipIsSkipped ==
  [][(CurTitle \in {"item", "Definition", "Eintrag"} /\ CurMatch # 0
      /\ req.conflictMode = "skip") =>
       (log' = log /\ tgt' = tgt /\ Pushed("skipped"))]_vars

\* C4, amended: under mode skip no request is sent and nothing is written
\* for a matched product, collection, page, blog, metaobject definition or
\* entry, and its status is skipped, except in a dry run of a blogs call,
\* which reports updated.  A matched metafield gets no write either; it has
\* no Result of its own and is counted as skipped in its owner's tally.
C4_MatchedSkipWritesNothing ==
  [][(CurMatch # 0 /\ req.conflictMode = "skip") =>
       CASE CurTitle \in {"item", "Definition", "Eintrag"} ->
              /\ log' = log /\ tgt' = tgt
              /\ Pushed(IF req.dryRun /\ req.dataType = "blogs" THEN "updated"
                        ELSE "skipped")
         [] CurTitle = "Metafeld" ->
              /\ log' = log /\ tgt' = tgt /\ results' = results
              /\ tally' = [tally EXCEPT !.skipped = @ + 1]
         [] OTHER -> TRUE]_vars

\* A non-dry-run call under skip answered skipped for a matched item without
\* having written anything.
C4_Witness ==
  /\ ~req.dryRun /\ req.conflictMode = "skip" /\ response = "results"
  /\ \E k \in 1..Len(results) :
       results[k].title = "item" /\ results[k].status = "skipped"
  /\ TargetWrites = {}
  /\ Len(targetList) > 0

\* C5: a matched item under mode overwrite in a non-dry-run call gets
\* exactly one update write, addressed to the matched target record, and
\* (that write succeeding) the status updated.
C5_MatchedOverwriteIsUpdated ==
  [][(CurTitle \in {"item", "Eintrag"} /\ CurMatch # 0
      /\ req.conflictMode = "overwrite" /\ ~req.dryRun) =>
       (OneUpdate /\ (LastReq.out = "ok" => Pushed("updated")))]_vars

\* C6: in a dry run the status of an item is created when it has no match
\* and updated when it has one, never skipped, under every conflict mode.
C6_DryRunPredictsCreatedOrUpdated ==
  [][(CurTitle \in {"item", "Eintrag"} /\ req.dryRun) =>
       Pushed(IF CurMatch # 0 THEN "updated" ELSE "created")]_vars

ResultsOf(id) == {k \in 1..Len(results) : results[k].id = id}

\* C7: a call that answers with a result list for N requested items returns
\* exactly N Results, one per requested item (stated for products,
\* collections and pages, ids the source holds, and a source listing that
\* was fetched).
C7_OneResultPerRequestedItem ==
  (/\ response = "results"
   /\ req.dataType \in {"products", "collections", "pages"}
   /\ req.itemIds \subseteq 1..NumItems
   /\ \A n \in LogIdx : log[n].store = "src" => log[n].out = "ok")
  => /\ Len(results) = Cardinality(req.itemIds)
     /\ \A id \in req.itemIds : Cardinality(ResultsOf(id)) = 1

\* C8: a failed write of an item is recorded as an error of that item (for
\* a metafield: in its owner's tally, which makes the owner's Result an
\* error), it does not end the call, and the loop goes on to what follows
\* with the fetched collections untouched.
C8_WriteFailureIsContained ==
  /\ [][(OneRequest /\ IsWrite(LastReq) /\ LastReq.out # "ok") =>
          /\ response' = "none" /\ pc' # "done"
          /\ <<selected, targetList, entries, tgtEntries, metafields, tgtMf>>'
               = <<selected, targetList, entries, tgtEntries, metafields, tgtMf>>
          /\ tgt' = tgt
          /\ IF LastReq.res = "metafields"
             THEN /\ tally' = [tally EXCEPT !.errors = @ + 1]
                  /\ jdx' = jdx + 1 /\ idx' = idx /\ results' = results
             ELSE /\ results' = Append(results,
                      Result(LastReq.item,
                             IF LastReq.res = "articles" THEN "Artikel"
                             ELSE CurTitle, "error"))
                  /\ IF CurTitle \in {"item", "Definition"}
                     THEN idx' = idx + 1 /\ pc' = pc
                     ELSE jdx' = jdx + 1 /\ idx' = idx /\ pc' = pc]_vars
  /\ [][(pc = "mfFields" /\ jdx > Len(metafields) /\ tally.errors > 0) =>
          results' = Append(results, Result(selected[idx], "Metafelder", "error"))]_vars
  /\ [](response = "error" => ~IsWrite(log[Len(log)]))
  /\ [](response = "results" =>
          \A n \in TargetWrites :
            (log[n].out # "ok" /\ log[n].res # "metafields") =>
              \E k \in ResultsOf(log[n].item) : results[k].status = "error")

\* The write of the first of two items failed and the second was written.
C8_Witness ==
  /\ response = "results"
  /\ \E n \in TargetWrites, m \in TargetWrites :
       /\ n < m /\ log[n].out = "fail" /\ log[m].out = "ok"
       /\ log[n].res = log[m].res
       /\ \E k \in ResultsOf(log[n].item) : results[k].status = "error"
       /\ \E k \in ResultsOf(log[m].item) : results[k].status \in {"created", "updated"}

AllRecords(res) == {tgt[res][n] : n \in 1..Len(tgt[res])}

\* C9: two calls in sequence with mode overwrite and the same ids, on a
\* target that held none of the items, all requests succeeding: created for
\* every item of the first call, updated for every item of the second, and
\* no two target records made from the same source record (stated for
\* products, collections, pages and blogs).
C9_OverwriteTwiceIsIdempotent ==
  (/\ calls = 2 /\ prevReq = req /\ response = "results" /\ fails = 0
   /\ req.dataType \in RestKinds
   /\ req.conflictMode = "overwrite" /\ ~req.dryRun
   /\ \A res \in Resources : \A x \in AllRecords(res) : x.from # 0)
  => /\ \A k \in 1..Len(prevResults) : prevResults[k].status = "created"
     /\ \A k \in 1..Len(results) : results[k].status = "updated"
     /\ \A res \in Resources : \A x, y \in AllRecords(res) :
          x.from = y.from => x = y

\* C10: writes flow from the source to the target only: the source store
\* receives GETs and GraphQL queries, never a POST, PUT or mutation.
C10_SourceIsOnlyRead ==
  \A n \in LogIdx : log[n].store = "src" => ~IsWrite(log[n])

\* A blogs call has read the source articles and written them to the target.
C10_Witness ==
  /\ response = "results"
  /\ \E n \in LogIdx : log[n].store = "src" /\ log[n].res = "articles"
  /\ \E n \in TargetWrites : log[n].res = "articles" /\ log[n].out = "ok"

\* C11: a failed listing fetch on the target side (products, collections,
\* pages, blogs, metaobject definitions, metaobject entries, an owner's
\* metafields) never ends the call with the top-level error payload.
C11_TargetFetchFailureIsNotFatal ==
  \A n \in LogIdx :
    (log[n].store = "tgt" /\ ~IsWrite(log[n]) /\ log[n].out = "fail")
      => response # "error"

\* The owner item a metafield write belongs to.
OwnerOf(r) == r.item \div 10

HasTargetOwner(itemId) ==
  /\ itemId \in 1..NumItems
  /\ FindByHandle(tgt[OwnerType], SrcList(OwnerType)[itemId].handle) # NoMatch

\* The step looks up the target owner of an item whose handle no target
\* item has.
LooksUpMissingOwner ==
  /\ pc \in {"mfFindTarget", "mfFallback"}
  /\ ~HasTargetOwner(selected[idx])

\* No metafield is ever written for an item without a target owner.
NoOrphanMetafield ==
  req.dataType = "metafields" =>
    \A n \in TargetWrites : HasTargetOwner(OwnerOf(log[n]))

\* C12 as stated: the item's Result is error with the not-found message.
C12_MissingOwnerIsNotFound ==
  /\ [][LooksUpMissingOwner =>
          /\ OneRequest /\ ~IsWrite(LastReq) /\ tgt' = tgt
          /\ \/ pc = "mfFindTarget" /\ pc' = "mfFallback" /\ results' = results
             \/ /\ pc' = "mfItems" /\ idx' = idx + 1
                /\ results' = Append(results,
                     ResultWith(selected[idx], "Metafelder", "error", NotFound))]_vars
  /\ []NoOrphanMetafield

\* C12, amended: when the source owner has metafields and a handle that no
\* target item has, the item gets one error Result and no metafield write,
\* for every conflict mode and both dryRun values; the message is the
\* not-found message when a target lookup was answered, and the message of
\* the transport error when the filtered lookup and its fallback both failed.
C12_MissingOwnerIsError ==
  /\ [][LooksUpMissingOwner =>
          /\ OneRequest /\ ~IsWrite(LastReq) /\ tgt' = tgt
          /\ \/ /\ pc = "mfFindTarget" /\ LastReq.out = "fail"
                /\ pc' = "mfFallback" /\ results' = results /\ idx' = idx
             \/ /\ pc' = "mfItems" /\ idx' = idx + 1
                /\ results' = Append(results,
                     ResultWith(selected[idx], "Metafelder", "error",
                                IF LastReq.out = "ok" THEN NotFound ELSE Thrown))
                /\ LastReq.out = "fail" => pc = "mfFallback"]_vars
  /\ []NoOrphanMetafield
  /\ []((response = "results" /\ req.dataType = "metafields"
         /\ OwnerType \in OwnerTypes) =>
          \A id \in req.itemIds : Cardinality(ResultsOf(id)) = 1)

\* A call under overwrite ended with the not-found error of an item that
\* has metafields, and nothing was written.
C12_Witness ==
  /\ response = "results" /\ req.dataType = "metafields"
  /\ req.conflictMode = "overwrite"
  /\ \E k \in 1..Len(results) :
       /\ results[k].status = "error" /\ results[k].message = NotFound
       /\ Len(SrcMetafields(results[k].id)) > 0
  /\ TargetWrites = {}

\* The selected blogs the call matched by handle in the target listing.
MatchedBlogs ==
  {selected[n] : n \in {k \in 1..Len(selected) :
                          FindByHandle(targetList, selected[k].handle) # NoMatch}}

ArticleIds(b) == {SrcArticles(b.id)[j].id : j \in 1..Len(SrcArticles(b.id))}

\* The requests of this call about the articles of blog b.
ArticleRequests(b) ==
  {n \in LogIdx : /\ log[n].res = "articles"
                  /\ \/ log[n].verb = "GET" /\ log[n].item = b.id
                     \/ log[n].verb = "POST" /\ log[n].item \in ArticleIds(b)}

ArticlePosts(a) ==
  {n \in LogIdx : /\ log[n].store = "tgt" /\ log[n].res = "articles"
                  /\ log[n].verb = "POST" /\ log[n].item = a /\ log[n].out = "ok"}

Copies(a) ==
  Cardinality({n \in 1..Len(tgt["articles"]) : tgt["articles"][n].from = a})

BlogRerunDone ==
  /\ req.dataType = "blogs" /\ ~req.dryRun /\ response = "results"

C14_AskBehavesAsOverwrite ==
  [][(CurTitle \in {"item", "Eintrag"} /\ req.dataType # "blogs"
      /\ CurMatch # 0 /\ req.conflictMode = "ask" /\ ~req.dryRun) =>
       (OneUpdate /\ (LastReq.out = "ok" => Pushed("updated")))]_vars

WithStatus(st) == {k \in 1..Len(results) : results[k].status = st}

\* C15: in every response that carries a result list, total is the number
\* of Results, each of created/updated/skipped/errors is the number of
\* Results with that status, and the four add up to total.
C15_SummaryMatchesResults ==
  response = "results" =>
    /\ summary.total = Len(results)
    /\ summary.created = Cardinality(WithStatus("created"))
    /\ summary.updated = Cardinality(WithStatus("updated"))
    /\ summary.skipped = Cardinality(WithStatus("skipped"))
    /\ summary.errors = Cardinality(WithStatus("error"))
    /\ summary.created + summary.updated + summary.skipped + summary.errors
         = summary.total

\* A response whose Results are more than the requested items (a blog and
\* its articles) and of more than one status.
C15_Witness ==
  /\ response = "results"
  /\ Len(results) > Cardinality(req.itemIds)
  /\ summary.created > 0 /\ summary.errors > 0

\* The (item id, status) pairs of a result list, in order.
Pairs(rs) == [k \in 1..Len(rs) |-> <<rs[k].id, rs[k].status>>]

\* C16: the (item id, status) list a dry run returns equals the list the
\* same request returns with dryRun off, from the same source and target
\* state, every remote request succeeding.
C16_DryRunPredictsRealRun ==
  (/\ calls = 2 /\ prevReq.dryRun /\ ~req.dryRun
   /\ prevReq = [req EXCEPT !.dryRun = TRUE]
   /\ response = "results" /\ fails = 0)
  => Pairs(prevResults) = Pairs(results)

\* C17: a call ends with the top-level error payload only on a failure that
\* precedes the processing of the first selected item or definition: no
\* Result has been recorded and no write has been made that the error
\* payload would discard.
C17_ErrorOnlyBeforeFirstItem ==
  response = "error" => (idx = 1 /\ results = <<>> /\ TargetWrites = {})

\* The metafield writes of this call below the owner item itemId.
FieldWrites(itemId) ==
  {n \in TargetWrites : log[n].res = "metafields" /\ OwnerOf(log[n]) = itemId}

\* The target owner of itemId was resolved in this non-dry-run call: the
\* owner's metafields were asked for, which follows the resolution.
OwnerResolved(itemId) ==
  \E n \in LogIdx : /\ log[n].store = "tgt" /\ log[n].verb = "GET"
                    /\ log[n].res = "metafields" /\ log[n].item = itemId

AggregatedStatus(itemId) ==
  IF \E n \in FieldWrites(itemId) : log[n].out # "ok" THEN "error" ELSE "created"

\* C18: in a non-dry-run metafield sync every requested item whose target
\* owner was resolved gets exactly one aggregated Result; its status is
\* error if at least one of its metafield writes failed and created
\* otherwise, also when every field was only updated or only skipped.
C18_OneAggregatedResult ==
  /\ [][(pc = "mfFields" /\ jdx > Len(metafields)) =>
          /\ results' = Append(results,
               Result(selected[idx], "Metafelder", AggregatedStatus(selected[idx])))
          /\ idx' = idx + 1 /\ log' = log]_vars
  /\ []((req.dataType = "metafields" /\ ~req.dryRun /\ response = "results") =>
          \A id \in req.itemIds :
            OwnerResolved(id) =>
              /\ Cardinality(ResultsOf(id)) = 1
              /\ \A k \in ResultsOf(id) :
                   /\ results[k].status = AggregatedStatus(id)
                   /\ results[k].title = "Metafelder")

\* A second call under skip found every field of a resolved owner on the
\* target, wrote nothing and reported the owner as created.
C18_Witness ==
  /\ req.dataType = "metafields" /\ ~req.dryRun /\ response = "results"
  /\ req.conflictMode = "skip" /\ calls = 2
  /\ \E id \in req.itemIds :
       /\ OwnerResolved(id) /\ FieldWrites(id) = {}
       /\ Len(tgtMf) = Len(SrcMetafields(id))
       /\ \E k \in ResultsOf(id) : results[k].status = "created"

\* The requests a step sends: they are in flight together until the step's
\* await resumes the handler (none when the step sends nothing or when a new
\* call starts a new log).
Sent ==
  IF Len(log') > Len(log) /\ SubSeq(log', 1, Len(log)) = log
  THEN SubSeq(log', Len(log) + 1, Len(log'))
  ELSE <<>>

PosInSelected(id) == CHOOSE n \in 1..Len(selected) : selected[n].id = id

\* C19: within a call at most one write to the target is in flight: every
\* step sends at most one request and awaits its answer, so the write of
\* an item, article or metafield is sent after the previous one was
\* answered; the only requests in flight together are the two source GETs
\* of the custom and the smart collections.  The writes of the item loops
\* follow the order of the selected items.
C19_OneWriteInFlight ==
  /\ [][\/ Len(Sent) <= 1
        \/ /\ Len(Sent) = 2
           /\ \A j \in 1..2 : Sent[j].store = "src" /\ Sent[j].verb = "GET"
           /\ {Sent[1].res, Sent[2].res}
                = {"custom_collections", "smart_collections"}]_vars
  /\ [](\A n \in LogIdx : log[n].out \in MutationOutcomes)
  /\ [](req.dataType \in {"products", "pages", "collections"} =>
          \A n \in TargetWrites, m \in TargetWrites :
            n < m => PosInSelected(log[n].item) < PosInSelected(log[m].item))

\* The two collection listings were fetched together and two collections
\* were written one after the other.
C19_Witness ==
  /\ req.dataType = "collections" /\ response = "results"
  /\ Len(log) >= 2
  /\ log[1].res = "custom_collections" /\ log[2].res = "smart_collections"
  /\ Cardinality(TargetWrites) = 2

\* The mutations of this call that were answered with userErrors.
SoftFailures ==
  {n \in LogIdx : log[n].verb = "MUTATION" /\ log[n].out = "userErrors"}

\* C20: a mutation (definition create, entry create, entry update) answered
\* with a non-empty userErrors list makes the Result of its item an error,
\* never created or updated, and the item has exactly one Result; nothing
\* is recorded as written on the target.
C20_UserErrorsIsError ==
  /\ [][(OneRequest /\ LastReq.verb = "MUTATION" /\ LastReq.out = "userErrors")
          => /\ results' = Append(results, Result(LastReq.item, CurTitle, "error"))
             /\ LastReq.item = CurId
             /\ tgt' = tgt]_vars
  /\ [](\A n \in SoftFailures :
          /\ Cardinality(ResultsOf(log[n].item)) = 1
          /\ \A k \in ResultsOf(log[n].item) : results[k].status = "error")

\* A definition create and an entry write were both answered with
\* userErrors in a call that went on to its response.
C20_Witness ==
  /\ response = "results"
  /\ \E n \in SoftFailures : log[n].res = "definitions"
  /\ \E n \in SoftFailures : log[n].res = "metaobjects" /\ log[n].ref # 0

\* The entry queries this call sent to the source for definition def.
SrcEntryQueries(def) ==
  {n \in LogIdx : /\ log[n].store = "src" /\ log[n].verb = "QUERY"
                  /\ log[n].res = "metaobjects" /\ log[n].item = def.id}

\* Pages a listing of n entries is served in (an empty listing is one page).
Pages(n) == IF n = 0 THEN 1 ELSE (n + PageSize - 1) \div PageSize

\* Requests and Results of this call about the entries of a type, other
\* than the source queries.
EntryWork(type) ==
  {n \in LogIdx : /\ log[n].res = "metaobjects"
                  /\ log[n].store = "tgt"
                  /\ EntryType(log[n]) = type}

EntryResults(type) ==
  {k \in 1..Len(results) :
     results[k].title = "Eintrag" /\ results[k].id \div 10 = type}

\* C21: the source-entry pagination asks for each next page with the cursor
\* of the last edge fetched (none for the first page), goes on exactly
\* while the page says hasNextPage, so it ends after as many queries as the
\* listing has pages, has then accumulated every source entry exactly once,
\* in order, and nothing about an entry of the definition is asked of or
\* written to the target, or recorded, before it has ended.
C21_SourcePaginationIsComplete ==
  /\ [][pc = "srcEntries" =>
          /\ OneRequest
          /\ LastReq = shopifyGraphQL("src", "QUERY", "metaobjects",
                                      selected[idx].id, Len(entries),
                                      NoVariables, LastReq.out)
          /\ LastReq.out = "ok" =>
               /\ Len(entries') > Len(entries)
               /\ (pc' = "srcEntries")
                    <=> (Len(entries') < Len(SrcEntries(selected[idx].type)))
               /\ pc' \in {"srcEntries", "tgtEntries"}]_vars
  /\ [](pc \in {"tgtEntries", "entries"} =>
          /\ entries = SrcEntries(selected[idx].type)
          /\ Cardinality(SrcEntryQueries(selected[idx])) = Pages(Len(entries)))
  /\ [](pc = "srcEntries" =>
          /\ EntryWork(selected[idx].type) = {}
          /\ EntryResults(selected[idx].type) = {})

\* A listing of two entries or more was fetched in two queries or more and
\* the entry loop is about to start.
C21_Witness ==
  /\ pc = "entries" /\ jdx = 1
  /\ Len(entries) >= 2
  /\ Cardinality(SrcEntryQueries(selected[idx])) >= 2
  /\ \E n \in SrcEntryQueries(selected[idx]) : log[n].ref # 0

\* The positions of the records of a fetched target list that carry the
\* natural key of the item being processed.
KeyMatches ==
  CASE CurTitle = "item" ->
         {n \in 1..Len(targetList) : targetList[n].handle = selected[idx].handle}
    [] CurTitle = "Eintrag" ->
         {n \in 1..Len(tgtEntries) : tgtEntries[n].handle = entries[jdx].handle}
    [] CurTitle = "Metafeld" ->
         {n \in 1..Len(tgtMf) : tgtMf[n].key = metafields[jdx].key}
    [] OTHER -> {}

MatchList ==
  CASE CurTitle = "item" -> targetList
    [] CurTitle = "Eintrag" -> tgtEntries
    [] CurTitle = "Metafeld" -> tgtMf
    [] OTHER -> <<>>

\* The id of the first of them in fetched order.
FirstMatchId ==
  MatchList[CHOOSE n \in KeyMatches : \A m \in KeyMatches : n <= m].id

\* C22: an item is matched to at most one target record, the first in
\* fetched target order that carries its natural key: an update write of
\* the item is sent only when there is such a record, is addressed to the
\* id of the first one, and no item is written twice in a call; a matched
\* blog hands the id of its first match to its articles.
C22_FirstMatchWins ==
  /\ [][(OneRequest /\ LastReq.store = "tgt" /\ IsUpdate(LastReq)) =>
          /\ KeyMatches # {}
          /\ LastReq.ref = FirstMatchId
          /\ LastReq.item = CurId]_vars
  /\ [](\A n \in TargetWrites, m \in TargetWrites :
          (log[n].res = log[m].res /\ log[n].item = log[m].item) => n = m)
  /\ [][(pc = "items" /\ req.dataType = "blogs" /\ pc' = "fetchArticles"
         /\ KeyMatches # {}) => targetBlogId' = FirstMatchId]_vars

\* The fetched target list held two records with the handle of an item and
\* the update of the item went to the first of them.
C22_Witness ==
  \E n \in TargetWrites :
    /\ IsUpdate(log[n]) /\ log[n].out = "ok"
    /\ log[n].res \in {"products", "pages"}
    /\ \E a \in 1..Len(targetList), b \in 1..Len(targetList) :
         /\ a < b
         /\ targetList[a].handle = targetList[b].handle
         /\ targetList[a].id = log[n].ref
         /\ \E k \in 1..Len(selected) :
              selected[k].id = log[n].item /\ selected[k].handle = targetList[a].handle

\* The REST writes of records that cross the stores after cleaning.
RecordWrites ==
  {n \in TargetWrites :
     log[n].res \in {"products", "custom_collections", "smart_collections",
                     "pages", "articles"}}

\* C23: no body written for a product, collection, page or article has a
\* top-level id, admin_graphql_api_id, created_at, updated_at or
\* published_at, nor an owner foreign key.
C23_BodiesCarryNoIdentity ==
  \A n \in RecordWrites :
    log[n].body \cap (IdentityFields
                      \cup {"shop_id", "blog_id", "product_id", "user_id"}) = {}

\* C24: no collection body written to the target carries the sub-type tag
\* of the source collection.
C24_CollectionBodyHasNoSubType ==
  \A n \in TargetWrites :
    log[n].res \in {"custom_collections", "smart_collections"}
      => log[n].body \cap {"_type", "type"} = {}

\* The source entry with id e.
SrcEntry(e) == SrcEntries(e \div 10)[e % 10]

Elements(seq) == {seq[k] : k \in 1..Len(seq)}

\* C25: every metaobject entry create or update sent to the target carries
\* exactly the fields of the source entry whose value is neither null nor
\* "", each once and as key and value only.
C25_EntryFieldsAreFiltered ==
  \A n \in TargetWrites :
    log[n].res = "metaobjects" =>
      /\ Elements(log[n].fields)
           = {[key |-> f.key, value |-> f.value] :
                f \in {g \in Elements(SrcEntry(log[n].item).fields) :
                         g.value # Null /\ g.value # ""}}
      /\ Len(log[n].fields) = Cardinality(Elements(log[n].fields))
      /\ \A k \in 1..Len(log[n].fields) :
           log[n].fields[k].value \notin {Null, ""}
      /\ "fields" \in log[n].body

\* An entry with a field of value "" and an entry with a field of value
\* null were both written, one of them as an update.
C25_Witness ==
  \E n \in TargetWrites, m \in TargetWrites :
    /\ log[n].res = "metaobjects" /\ log[m].res = "metaobjects"
    /\ \E f \in Elements(SrcEntry(log[n].item).fields) : f.value = ""
    /\ \E f \in Elements(SrcEntry(log[m].item).fields) : f.value = Null
    /\ Len(log[n].fields) = 2 /\ Len(log[m].fields) = 2
    /\ IsUpdate(log[n]) \/ IsUpdate(log[m])

\* The positions at which the metafields of the item selected[idx] are
\* being copied, after the item's source metafields were fetched.
ItemStages == {"mfSrcItem", "mfFindTarget", "mfFallback", "mfTgtMetafields",
               "mfFields"}

\* C26: in a metafields call, when the fetched source metafield list of an
\* item is empty, that step pushes the item's skipped Result and moves to
\* the next item having sent the source GET only; every request sent to the
\* target store belongs to an item whose source metafield list is not
\* empty, so none is sent for the skipped item.
C26_EmptyListIsSkipped ==
  /\ [][(/\ pc = "mfItems" /\ req.dataType = "metafields"
         /\ idx <= Len(selected) /\ log' # log
         /\ LastReq.out = "ok" /\ Len(SrcMetafields(selected[idx])) = 0)
        => (/\ results' = Append(results,
                            Result(selected[idx], "Metafelder", "skipped"))
            /\ idx' = idx + 1 /\ pc' = "mfItems"
            /\ OneRequest /\ LastReq.store = "src")]_vars
  /\ [][(req.dataType = "metafields" /\ Len(log') > Len(log)
         /\ \E k \in 1..Len(Sent) : Sent[k].store = "tgt")
        => (/\ pc \in ItemStages
            /\ Len(SrcMetafields(selected[idx])) > 0)]_vars
  /\ [](pc \in ItemStages => Len(SrcMetafields(selected[idx])) > 0)

\* A call answered after it skipped an item without metafields, having
\* written the metafields of another item to the target.
C26_Witness ==
  /\ req.dataType = "metafields" /\ response = "results"
  /\ \E n \in 1..Len(results) :
       /\ results[n].status = "skipped"
       /\ Len(SrcMetafields(results[n].id)) = 0
  /\ TargetWrites # {}

\* The ids of the fetched source items the request selects.
SelectedIds == {selected[k].id : k \in 1..Len(selected)}

\* C27: in a call for products, collections, pages or blogs every write to
\* the target is for a fetched source item whose id is in itemIds (or for
\* an article of such a blog), every top-level Result has the id of such
\* an item, and an id of itemIds that no fetched source item has is
\* neither written nor reported.
C27_OnlyRequestedItems ==
  req.dataType \in RestKinds =>
    /\ SelectedIds \subseteq req.itemIds \cap (1..NumItems)
    /\ \A n \in TargetWrites :
         LET owner == IF log[n].res = "articles"
                      THEN log[n].item \div 10 ELSE log[n].item
         IN  owner \in req.itemIds /\ owner \in SelectedIds
    /\ \A n \in 1..Len(results) :
         /\ results[n].title = "item"
              => results[n].id \in req.itemIds \cap SelectedIds
         /\ results[n].title = "Artikel"
              => results[n].id \div 10 \in req.itemIds \cap SelectedIds

\* A call for the ids {0, 1} was answered after it wrote item 1: no source
\* item has the id 0, and source item 2 was not asked for.
C27_Witness ==
  /\ req.dataType \in RestKinds /\ req.itemIds = {0, 1}
  /\ response = "results"
  /\ \E n \in TargetWrites : log[n].item = 1 /\ log[n].out = "ok"
  /\ \E k \in 1..NumItems : k \notin req.itemIds

\* The GETs of a full target listing sent by the call, per resource.
TargetListings(res) ==
  {n \in LogIdx : /\ log[n].store = "tgt" /\ log[n].verb = "GET"
                  /\ log[n].res = res /\ log[n].item = 0}

\* The ids of the records of the resource the call itself has created: the
\* last records of the listing, one per answered POST.
CreatedIds(res) ==
  LET k == Cardinality({n \in TargetWrites :
                          /\ log[n].res = res /\ log[n].verb = "POST"
                          /\ log[n].out = "ok"})
  IN  {tgt[res][m].id : m \in (Len(tgt[res]) - k + 1)..Len(tgt[res])}

\* The resources a call of the kind writes its top-level items to.
ListedResources ==
  IF req.dataType = "collections"
  THEN {"custom_collections", "smart_collections"}
  ELSE {req.dataType}

\* C28: in a call for products, collections, pages or blogs each target
\* listing is fetched at most once (exactly once when the item loop runs),
\* before any Result and any write; the list used for matching changes
\* only by those fetches and never once the loop has started; and it holds
\* no record the call itself created.
C28_TargetListFetchedOnce ==
  /\ [](req.dataType \in RestKinds =>
          /\ \A res \in ListedResources :
               /\ Cardinality(TargetListings(res)) <= 1
               /\ pc \in {"items", "fetchArticles", "articles"}
                    => Cardinality(TargetListings(res)) = 1
               /\ \A n \in TargetListings(res), m \in TargetWrites : n < m
               /\ {targetList[k].id : k \in 1..Len(targetList)}
                    \cap CreatedIds(res) = {}
          /\ \A res \in Resources \ ListedResources : TargetListings(res) = {})
  /\ [][(req.dataType \in RestKinds /\ targetList' # targetList)
        => \/ pc \in {"idle", "done"}
           \/ /\ pc \in {"fetchTgt", "fetchTgtSmart"}
              /\ results = <<>> /\ idx = 1 /\ TargetWrites = {}]_vars
  /\ [][(req.dataType \in RestKinds
         /\ \E k \in 1..Len(Sent) :
              /\ Sent[k].store = "tgt" /\ Sent[k].verb = "GET")
        => (results = <<>> /\ idx = 1 /\ TargetWrites = {})]_vars

\* In a call whose list for matching was fetched from a target that held
\* a record, an item was created and a later item was written after it.
C28_Witness ==
  /\ req.dataType \in RestKinds
  /\ Len(targetList) > 0
  /\ \E n \in TargetWrites, m \in TargetWrites :
       /\ n < m /\ log[n].item # log[m].item
       /\ log[n].verb = "POST" /\ log[n].out = "ok"
       /\ log[m].out = "ok"
       /\ log[n].res \in ListedResources /\ log[m].res \in ListedResources

\* A failed request of the target for a listing the matching uses: a full
\* REST listing, a page of the entries of a type, the metafields of the
\* target owner.
FailedTargetListing(r) ==
  /\ r.store = "tgt" /\ r.out = "fail"
  /\ \/ r.verb = "GET" /\ req.dataType \in RestKinds
     \/ r.verb = "QUERY" /\ r.res = "metaobjects"
     \/ r.verb = "GET" /\ r.res = "metafields"

\* The list the items of the running call are matched against.
MatchingList ==
  CASE req.dataType \in RestKinds -> targetList
    [] req.dataType = "metaobjects" -> tgtEntries
    [] OTHER -> tgtMf

\* C29: after a step in which a fetch of a target listing failed, the list
\* used for matching is empty, the failure of a later page of the target
\* entries included.
C29_FailedFetchLeavesListEmpty ==
  [][(\E k \in 1..Len(Sent) : FailedTargetListing(Sent[k]))
     => MatchingList' = <<>>]_vars

\* The positions in the result list of the definition Results of d.
DefinitionResults(d) ==
  {n \in 1..Len(results) :
     results[n].title = "Definition" /\ results[n].id = d.id}

\* The positions of the entry Results of the entries of definition d.
EntryResultsOf(d) ==
  {n \in 1..Len(results) :
     results[n].title = "Eintrag" /\ results[n].id \div 10 = d.type}

\* The definition step of selected[k] is over.
DefinitionStepDone(k) ==
  \/ k < idx
  \/ k = idx /\ pc \in {"srcEntries", "tgtEntries", "entries"}

\* The status the definition step owes to definition d.
DefinitionStatus(d) ==
  IF FindByType(targetList, d.type) # NoMatch THEN "skipped"
  ELSE IF req.dryRun THEN "created"
  ELSE IF DefinitionCreates(d.type, {"ok"}) # {} THEN "created"
  ELSE "error"

C32_UpdateGoesToMatchedSubType ==
  \A n \in TargetWrites :
    (log[n].res \in {"custom_collections", "smart_collections"}
     /\ IsUpdate(log[n]))
      => \E k \in 1..Len(tgt[log[n].res]) : tgt[log[n].res][k].id = log[n].ref

\* C33: in the result list of a call no id has two Results of different
\* statuses.
C33_OneStatusPerId ==
  \A n \in 1..Len(results), m \in 1..Len(results) :
    results[n].id = results[m].id => results[n].status = results[m].status

\* ---------------------------------------------------- orchestrator claims
\* The positions of the entity calls for kind k, and of the metafield calls
\* for the items of kind k.
EntityCalls(k) ==
  {n \in 1..Len(engineCalls) :
     engineCalls[n].dataType = k /\ engineCalls[n].ownerType = ""}

MetafieldCalls(k) ==
  {n \in 1..Len(engineCalls) :
     engineCalls[n].dataType = "metafields" /\ engineCalls[n].ownerType = k}

\* The loop of startMigration is over and FinishMigration comes next.
LoopOver == at = "loop" /\ dt > Len(dataTypesToMigrate)

\* C31: in a run of startMigration only the last call of the engine can be
\* pending, so calls never overlap; every call passes the selection of its
\* kind; no kind gets more than one entity call and one metafield call; a
\* metafield call directly follows the settled entity call of its kind;
\* and when the loop is over there is exactly one entity call per kind with
\* a selection, and one metafield call per kind exactly when the metafield
\* migration is on, the kind is products, collections, pages or blogs and
\* it has a selection.
C31_OneCallPerKindInOrder ==
  /\ \A n \in 1..Len(engineCalls) :
       /\ n < Len(engineCalls) => engineCalls[n].state = "settled"
       /\ engineCalls[n].dataType \in KindSet \cup {"metafields"}
       /\ engineCalls[n].dataType = "metafields"
            => /\ n > 1
               /\ engineCalls[n - 1].dataType = engineCalls[n].ownerType
               /\ engineCalls[n - 1].ownerType = ""
               /\ engineCalls[n - 1].state = "settled"
               /\ engineCalls[n].itemIds = selectedItems[engineCalls[n].ownerType]
       /\ engineCalls[n].dataType # "metafields"
            => engineCalls[n].itemIds = selectedItems[engineCalls[n].dataType]
  /\ \A k \in KindSet :
       /\ Cardinality(EntityCalls(k)) <= 1
       /\ Cardinality(MetafieldCalls(k)) <= 1
       /\ LoopOver =>
            /\ Cardinality(EntityCalls(k))
                 = (IF selectedItems[k] # {} THEN 1 ELSE 0)
            /\ Cardinality(MetafieldCalls(k))
                 = (IF /\ migrateMetafields /\ selectedItems[k] # {}
                       /\ k \in {"products", "collections", "pages", "blogs"}
                    THEN 1 ELSE 0)
  /\ \A n \in 1..Len(engineCalls) :
       \E k \in KindSet : n \in EntityCalls(k) \cup MetafieldCalls(k)

\* The loop is over for a selection of every kind with the metafield
\* migration on: nine calls were made, none for the metafields of
\* metaobjects.
C31_Witness ==
  /\ LoopOver /\ migrateMetafields
  /\ \A k \in KindSet : selectedItems[k] # {}
  /\ Len(engineCalls) = 9
  /\ MetafieldCalls("metaobjects") = {}

\* C36: the summary shown at the end of a run of startMigration has
\* total = created + updated + skipped + errors.
C36_GlobalSummaryAddsUp ==
  finished =>
    summaryState.total = summaryState.created + summaryState.updated
                         + summaryState.skipped + summaryState.errors

\* The state startMigration ends in.
FinalState ==
  /\ ~running /\ finished /\ progress = 100
  /\ completedSteps = totalSteps

\* C37: when every call of the engine returns or throws, a started run
\* reaches the state with running = false, finished = true, progress = 100
\* and completedSteps = totalSteps; the step that ends running is the one
\* that reaches it, whatever number of calls threw; running and finished
\* are never both true.
C37_RunReachesFinalState ==
  /\ running ~> FinalState
  /\ [][(running /\ ~running') => FinalState']_vars
  /\ [](running => totalSteps = totalMigrationSteps)
  /\ [](~(running /\ finished))

\* A run over every kind with the metafield migration on has ended after
\* nine steps although no entity call returned.
C37_Witness ==
  /\ FinalState
  /\ totalSteps = 9
  /\ summaryState.total = 0
  /\ summaryState.errors = 5 * MaxSelected

\* C35: when the field loop of an item is over, mfCreated + mfUpdated +
\* mfSkipped + mfErrors is the number of the item's source metafields.
C35_TalliesAccountForEveryField ==
  (req.dataType = "metafields" /\ pc = "mfFields" /\ jdx > Len(metafields))
    => tally.created + tally.updated + tally.skipped + tally.errors
         = Len(metafields)

\* A POST that carries shopUrl, accessToken and a graphql query.
GraphqlRequest ==
  /\ proxyRequest.http = "POST"
  /\ proxyRequest.shopUrl # Absent /\ proxyRequest.accessToken # Absent
  /\ proxyRequest.graphql # Absent

\* C38: a request with a graphql query and no endpoint, as
\* fetchMetaobjectDefinitions sends it, is forwarded to the store; the
\* proxy answers 400, without contacting the store, only to requests that
\* lack shopUrl or accessToken.
C38_GraphqlRequestIsForwarded ==
  /\ (GraphqlRequest /\ proxyResponse # NoResponse) => Len(forwarded) = 1
  /\ proxyResponse.status = 400
       => /\ forwarded = <<>>
          /\ proxyRequest.shopUrl = Absent \/ proxyRequest.accessToken = Absent
  /\ (proxyRequest = fetchMetaobjectDefinitions("shop", "token")
      /\ proxyResponse # NoResponse)
       => proxyResponse.status # 400

\* C34: while the metafields of an item are written, the resolved target
\* owner is a target record whose handle is that of the source item, and
\* every metafield the engine created on the target belongs to an owner
\* with the handle of the source item it was copied from.
C34_OwnerHasSourceHandle ==
  req.dataType = "metafields" =>
    /\ pc \in {"mfTgtMetafields", "mfFields"} =>
         \E k \in 1..Len(tgt[OwnerType]) :
           /\ tgt[OwnerType][k].id = targetItemId
           /\ tgt[OwnerType][k].handle
                = SrcList(OwnerType)[selected[idx]].handle
    /\ \A n \in 1..Len(tgt["metafields"]) :
         tgt["metafields"][n].from # 0 =>
           \E k \in 1..Len(tgt[OwnerType]) :
             /\ tgt[OwnerType][k].id = tgt["metafields"][n].owner
             /\ tgt[OwnerType][k].handle
                  = SrcList(OwnerType)[tgt["metafields"][n].from \div 10].handle
====
